---- MODULE Spec2Model ----
(***************************************************************************)
(* Block-template assembly and submission pipeline of the node's mining    *)
(* RPCs (src/src/rpc/mining.cpp): getblocktemplate with its long-poll wait *)
(* loop and cached shielded coinbase, submitblock and the BIP-22 result    *)
(* translation.  RPC worker threads, the chain-activation path, the        *)
(* mempool and the clock are separate processes interleaved at the         *)
(* granularity of the lock operations in the code.                         *)
(***************************************************************************)
EXTENDS Integers, Sequences, FiniteSets, TLC

(* ------------------------------ bounds --------------------------------- *)
\* highest block height of the block tree
MaxHeight == 2
\* number of clock observations after the first
MaxTicks == 1
\* largest value of the mempool's updated-counter
MaxTxUpdated == 2
\* significand width of the floating-point format of the model; the 53 bits of
\* a double are scaled down so that chain work of the model can exceed them
MantissaBits == 3

(* ------------------------- program constants --------------------------- *)
\* seconds added to the long-poll deadline (mining.cpp:578, 611)
LongPollSeconds == 10
\* age in seconds after which a mempool change triggers a rebuild (mining.cpp:629)
RebuildSeconds == 5

(* ------------------------------ universe ------------------------------- *)
RPCThreads == {"t1", "t2"}
NoThread == "none"
\* the clock is observed every LongPollSeconds seconds, up to MaxTime
ClockStep == LongPollSeconds
MaxTime == MaxTicks * ClockStep

\* A block index entry is identified by <<height, branch>>: the main branch
\* <<h, 0>> up to MaxHeight and a competing block <<1, 1>> on top of the genesis
\* block <<0, 0>>.  The pair stands for the block's hash.
Genesis == <<0, 0>>
ForkBlock == <<1, 1>>
Blocks == {Genesis, ForkBlock} \cup {<<h, 0>> : h \in 1..MaxHeight}
nHeightOf(b) == b[1]
pprev(b) == IF b[1] = 1 THEN Genesis ELSE <<b[1] - 1, b[2]>>
GetBlockHash(b) == b
\* a hash that names no block of the tree
UnknownHash == <<-1, 0>>
NullIndex == <<-2, 0>>

RECURSIVE Ancestors(_)
Ancestors(b) == IF b = Genesis THEN {Genesis} ELSE {b} \cup Ancestors(pprev(b))

\* GetMainSignals().AddressForMining: the configured kind of address, or no
\* valid address when none can be supplied
\* With "wallet" the address is a reserve script taken from the wallet's
\* keypool, and a null script ("exhausted") when the keypool has run out.
AddressForMining(config) ==
    IF config = "wallet" THEN {"transparent", "exhausted"} ELSE {config, "invalid"}
IsShieldedMinerAddress(a) == a = "shielded"
IsValidMinerAddress(a) == a \in {"transparent", "shielded"}

NoCb == [present |-> FALSE, height |-> 0, fees |-> 0]
\* CreateCoinbaseTransaction(params, nFees, minerAddress, nHeight)
CreateCoinbaseTransaction(fees, h) == [present |-> TRUE, height |-> h, fees |-> fees]

\* history kept with a template: the mempool counter sampled when it was
\* built, and whether it was built from a precomputed coinbase while the
\* mempool held transactions
NoBuildRecord == [txUpdated |-> 0, precomputedOverPool |-> FALSE]
NoTemplate == [live |-> FALSE, hashPrevBlock |-> NullIndex, height |-> 0,
               coinbase |-> NoCb, vtx |-> {}, built |-> NoBuildRecord]

\* the longpollid request values: absent, a non-string JSON value, or a
\* string.  A string of 64 hex digits and a decimal count carries a hash and a
\* count; a string shorter than 64 characters and a string whose first 64
\* characters are not all hex digits carry neither
NullLp == [kind |-> "null", form |-> "none", hash |-> UnknownHash, count |-> 0]
NonStrLp == [kind |-> "nonstr", form |-> "none", hash |-> UnknownHash, count |-> 0]
StrLp(h, c) == [kind |-> "str", form |-> "hex64", hash |-> h, count |-> c]
ShortStrLp == [kind |-> "str", form |-> "short", hash |-> UnknownHash, count |-> 0]
NotHexStrLp == [kind |-> "str", form |-> "nothex", hash |-> UnknownHash, count |-> 0]
\* what a client can send while the tip is `tip`: a string naming a hash other
\* than the tip's behaves like one naming UnknownHash, whatever its count
LpValues(tip) == {NullLp, NonStrLp, StrLp(UnknownHash, 0), ShortStrLp, NotHexStrLp}
              \cup {StrLp(GetBlockHash(tip), c) : c \in 0..MaxTxUpdated}

\* uint256::SetHex: the value of the leading hex digits; anything but 64 hex
\* digits gives a value that is no block's hash
SetHex(lp) == IF lp.form = "hex64" THEN lp.hash ELSE UnknownHash
\* atoi64: the value of the leading decimal digits, 0 when there are none
atoi64(lp) == IF lp.form = "hex64" THEN lp.count ELSE 0
\* lpstr.substr(64) is defined only for strings of at least 64 characters
SubstrInRange(lp) == lp.form # "short"

NoResult == [kind |-> "none"]
\* a reply that is a raised error
ErrorReply(code, message) == [kind |-> "error", code |-> code, message |-> message]

\* what a call did with the builder, kept beside its reply until it returns
NoBuild == [rebuilt |-> FALSE, invoked |-> FALSE, cb |-> NoCb, height |-> 0]

(* ----------------- consensus parameters and block data ----------------- *)
\* zatoshi per coin (amount.h)
COIN == 100000000
\* heights a caller can name: one below zero up to one past the highest block
QueryHeights == -1..(MaxHeight + 1)
\* an activation height no block of the model reaches
NoActivation == MaxHeight + 2
\* a slot of vFundingStreams: empty, or a stream paying numerator/denominator
\* of the subsidy at heights start <= h < end
NoStream == [defined |-> FALSE, start |-> 0, end |-> 0, num |-> 0, den |-> 1]
FundingStream(start, end, num, den) ==
    [defined |-> TRUE, start |-> start, end |-> end, num |-> num, den |-> den]
StreamIds == {0, 1}
StreamChoices == {NoStream, FundingStream(1, NoActivation, 1, 4),
                  FundingStream(2, NoActivation, 1, 3)}
ConsensusParams ==
    [nSubsidy : {12, 13},
     nSubsidyHalvingInterval : {2},
     canopyHeight : {1, 2, NoActivation},
     lastFoundersRewardHeight : {1, MaxHeight},
     vFundingStreams : [StreamIds -> StreamChoices],
     nPowAveragingWindow : {1, 2}]
DefaultConsensus ==
    [nSubsidy |-> 12, nSubsidyHalvingInterval |-> 2, canopyHeight |-> NoActivation,
     lastFoundersRewardHeight |-> 1, vFundingStreams |-> [i \in StreamIds |-> NoStream],
     nPowAveragingWindow |-> 2]
\* block times and block proofs a chain of the model can carry
BlockTimes == 0..2
BlockProofs == {1, 9}
ChainHeights == 0..MaxHeight
NoQuery == [fn |-> "none"]
\* no buffered file is open, no stream call has been made
NoFile == [open |-> FALSE]
NoStreamOp == [op |-> "none"]

VARIABLES
    chainTip,          \* chainActive.Tip()
    mapBlockIndex,     \* block -> index status
    mempool,           \* set of transaction ids in the mempool
    nTransactionsUpdated, \* mempool.GetTransactionsUpdated()
    fRPCRunning,       \* IsRPCRunning()
    minerConfig,       \* the kind of miner address the node is configured with
    now,               \* GetTime() / boost::get_system_time(), seconds
    cs_main,           \* owner of the chain lock
    csBestBlock,       \* owner of the tip-change mutex
    \* statics of getblocktemplate
    nTransactionsUpdatedLast,
    cached_next_cb_mtx,
    cached_next_cb_height,
    pindexPrev,
    nStart,
    pblocktemplate,
    lastBuiltTip,      \* history: the tip of the last build that succeeded
    \* per-call state of each RPC thread
    pc,
    loc,
    ret,
    \* per-call state of submitblock and of getblocktemplate in proposal mode
    sb,
    acceptedBlocks,    \* history: blocks a finished submitblock call saw accepted
    \* state read by the informational calls
    consensus,         \* Params().GetConsensus()
    nTime,             \* height -> block time of the active chain's block
    blockProof,             \* height -> proof (work) of the active chain's block
    query,             \* the last informational call and its reply
    \* state of the serialization streams
    vch,               \* the byte vector a CVectorWriter writes into
    bf,                \* a CBufferedFile and the file under it
    streamOp           \* the last stream call, its arguments and its result

gbtStatics == <<nTransactionsUpdatedLast, cached_next_cb_mtx, cached_next_cb_height,
                pindexPrev, nStart, pblocktemplate, lastBuiltTip>>
chainVars == <<chainTip, mapBlockIndex>>
mempoolVars == <<mempool, nTransactionsUpdated>>
lockVars == <<cs_main, csBestBlock>>
submitVars == <<sb, acceptedBlocks>>
streamVars == <<vch, bf, streamOp>>
queryVars == <<consensus, nTime, blockProof, query, streamVars>>
vars == <<chainTip, mapBlockIndex, mempool, nTransactionsUpdated, fRPCRunning,
          minerConfig, now,
          cs_main, csBestBlock, nTransactionsUpdatedLast, cached_next_cb_mtx,
          cached_next_cb_height, pindexPrev, nStart, pblocktemplate, lastBuiltTip,
          pc, loc, ret, sb, acceptedBlocks, consensus, nTime, blockProof, query,
          vch, bf, streamOp>>

\* no stream is in use
NoStreams ==
    /\ vch = << >>
    /\ bf = NoFile
    /\ streamOp = NoStreamOp

\* locals of a getblocktemplate call before it starts
NoLocals == [lpval |-> NullLp, minerAddress |-> "invalid", nHeight |-> 0,
             next_cb_mtx |-> NoCb, hashWatchedChain |-> UnknownHash,
             nTransactionsUpdatedLastLP |-> 0, checktxtime |-> 0, timedout |-> FALSE,
             \* history: the call has been inside timed_wait
             waited |-> FALSE,
             \* history: the call took its coinbase from the cache at entry
             fromCache |-> FALSE,
             \* generate: the height at which the call stops mining
             nHeightEnd |-> 0]

\* index status: validity level reached and the failed flag
StNone == [known |-> FALSE, scripts |-> FALSE, failed |-> FALSE]
StHeader == [known |-> TRUE, scripts |-> FALSE, failed |-> FALSE]
StValid == [known |-> TRUE, scripts |-> TRUE, failed |-> FALSE]

\* a CValidationState: its mode and reject reason
Reasons == {"", "bad-blk"}
ValidState == [mode |-> "valid", reason |-> ""]
InvalidStates == {[mode |-> "invalid", reason |-> r] : r \in Reasons}
ErrorStates == {[mode |-> "error", reason |-> r] : r \in Reasons}

\* locals of a submitblock or proposal call before it starts
NoSb == [mode |-> "none", block |-> NullIndex, fBlockPresent |-> FALSE,
         found |-> FALSE, scState |-> ValidState,
         \* the call's submitblock_StateCatcher is among the registered
         \* validation interfaces
         registered |-> FALSE,
         fAccepted |-> FALSE, state |-> ValidState,
         \* history: the call has invoked the consensus validator
         called |-> FALSE,
         \* history: what TestBlockValidity finds for a proposed block
         wouldBe |-> ValidState]

\* a node whose block tree is fully validated, with the tip at genesis, no
\* template built yet and no RPC call in progress
Init ==
    /\ chainTip = Genesis
    /\ mapBlockIndex = [b \in Blocks |-> StValid]
    /\ mempool = {}
    /\ nTransactionsUpdated = 0
    /\ fRPCRunning = TRUE
    /\ minerConfig \in {"transparent", "shielded"}
    /\ now = 0
    /\ cs_main = NoThread
    /\ csBestBlock = NoThread
    /\ nTransactionsUpdatedLast = 0
    /\ cached_next_cb_mtx = NoCb
    /\ cached_next_cb_height = 0
    /\ pindexPrev = NullIndex
    /\ nStart = 0
    /\ pblocktemplate = NoTemplate
    /\ lastBuiltTip = NullIndex
    /\ pc = [t \in RPCThreads |-> "idle"]
    /\ loc = [t \in RPCThreads |-> NoLocals]
    /\ ret = [t \in RPCThreads |-> NoResult]
    /\ sb = [t \in RPCThreads |-> NoSb]
    /\ acceptedBlocks = {}
    /\ consensus = DefaultConsensus
    /\ nTime = [h \in ChainHeights |-> 0]
    /\ blockProof = [h \in ChainHeights |-> 1]
    /\ query = NoQuery
    /\ NoStreams

(* ------------------------- small helpers ------------------------------- *)
SetLoc(t, f, v) == [loc EXCEPT ![t][f] = v]
Goto(t, label) == pc' = [pc EXCEPT ![t] = label]

(* ------------------- getblocktemplate, template mode ------------------- *)
\* a cache test that keeps every stored coinbase
CacheMatches_Always(cachedHeight, nHeight) == TRUE

\* mining.cpp:553  the cached coinbase survives the entry of a call only when
\* it was stored for the height after the next one
CacheMatches(cachedHeight, nHeight) == cachedHeight = nHeight + 2

\* a height test that expects the tip two blocks up
TipIsNextHeight_Plus2(tipHeight, nHeight) == tipHeight = nHeight + 2

\* mining.cpp:613  the call's coinbase survives the wait only when the tip
\* moved up by exactly one block
TipIsNextHeight(tipHeight, nHeight) == tipHeight = nHeight + 1

\* a rebuild decision that does not look at the tip
ShouldRebuild_IgnoreTip(lpIsNull, prev, tip, txUpdated, txUpdatedLast, time, start) ==
    \/ ~lpIsNull
    \/ (txUpdated # txUpdatedLast /\ time - start > RebuildSeconds)

\* a rebuild decision that does not look at the age of the template
ShouldRebuild_NoAgeCheck(lpIsNull, prev, tip, txUpdated, txUpdatedLast, time, start) ==
    \/ ~lpIsNull
    \/ prev # tip
    \/ txUpdated # txUpdatedLast

\* mining.cpp:628-629  the rebuild decision
ShouldRebuild(lpIsNull, prev, tip, txUpdated, txUpdatedLast, time, start) ==
    \/ ~lpIsNull
    \/ prev # tip
    \/ (txUpdated # txUpdatedLast /\ time - start > RebuildSeconds)

\* mining.cpp:475-545  LOCK(cs_main), request decoding, AddressForMining
GBT_Call(t) ==
    /\ pc[t] = "idle"
    /\ fRPCRunning
    /\ cs_main = NoThread
    /\ \E lp \in LpValues(chainTip), addr \in AddressForMining(minerConfig) :
          loc' = [loc EXCEPT ![t] = [NoLocals EXCEPT !.lpval = lp, !.minerAddress = addr]]
    /\ cs_main' = t
    /\ Goto(t, "entry")
    /\ UNCHANGED <<submitVars, chainVars, mempoolVars, fRPCRunning, minerConfig, queryVars, now, csBestBlock, gbtStatics, ret>>

\* mining.cpp:547-578  discard a stale cache, copy it, parse the longpollid
GBT_Entry(t) ==
    /\ pc[t] = "entry"
    /\ LET nHeight == nHeightOf(chainTip)
           cache == IF CacheMatches(cached_next_cb_height, nHeight)
                    THEN cached_next_cb_mtx ELSE NoCb
           lp == loc[t].lpval
           l1 == [loc[t] EXCEPT !.nHeight = nHeight, !.next_cb_mtx = cache,
                                !.fromCache = cache.present]
       IN /\ cached_next_cb_mtx' = cache
          /\ IF lp.kind = "null"
             THEN /\ loc' = [loc EXCEPT ![t] = l1]
                  /\ ret' = ret
                  /\ Goto(t, "update")
             ELSE IF lp.kind = "str" /\ ~SubstrInRange(lp)
             \* substr(64) throws std::out_of_range and the call ends
             THEN /\ loc' = [loc EXCEPT ![t] = l1]
                  /\ ret' = [ret EXCEPT ![t] =
                                [reply |-> ErrorReply("RPC_MISC_ERROR", "basic_string::substr"),
                                 build |-> NoBuild]]
                  /\ Goto(t, "return")
             ELSE /\ loc' = [loc EXCEPT ![t] =
                        [l1 EXCEPT
                           !.hashWatchedChain =
                               IF lp.kind = "str" THEN SetHex(lp) ELSE GetBlockHash(chainTip),
                           !.nTransactionsUpdatedLastLP =
                               IF lp.kind = "str" THEN atoi64(lp) ELSE nTransactionsUpdatedLast,
                           !.checktxtime = now + LongPollSeconds]]
                  /\ ret' = ret
                  /\ Goto(t, "lock_best")
    /\ UNCHANGED <<submitVars, chainVars, mempoolVars, fRPCRunning, minerConfig, queryVars, now, lockVars,
                   nTransactionsUpdatedLast, cached_next_cb_height, pindexPrev, nStart,
                   pblocktemplate, lastBuiltTip>>

\* mining.cpp:580  boost::unique_lock<boost::mutex> lock(csBestBlock)
GBT_LockBestBlock(t) ==
    /\ pc[t] = "lock_best"
    /\ csBestBlock = NoThread
    /\ csBestBlock' = t
    /\ Goto(t, "loop_cond")
    /\ UNCHANGED <<submitVars, chainVars, mempoolVars, fRPCRunning, minerConfig, queryVars, now, cs_main, gbtStatics, loc, ret>>

\* a wait loop that keeps cs_main while it waits
GBT_LoopCond_KeepLock(t) ==
    /\ pc[t] = "loop_cond"
    /\ IF GetBlockHash(chainTip) = loc[t].hashWatchedChain /\ fRPCRunning
       THEN Goto(t, "precompute")
       ELSE Goto(t, "after_loop")
    /\ UNCHANGED <<submitVars, chainVars, mempoolVars, fRPCRunning, minerConfig, queryVars, now, lockVars, gbtStatics, loc, ret>>

\* mining.cpp:581-583  loop condition and LEAVE_CRITICAL_SECTION(cs_main)
GBT_LoopCond(t) ==
    /\ pc[t] = "loop_cond"
    /\ IF GetBlockHash(chainTip) = loc[t].hashWatchedChain /\ fRPCRunning
       THEN /\ cs_main' = NoThread
            /\ Goto(t, "precompute")
       ELSE /\ cs_main' = cs_main
            /\ Goto(t, "after_loop")
    /\ UNCHANGED <<submitVars, chainVars, mempoolVars, fRPCRunning, minerConfig, queryVars, now, csBestBlock, gbtStatics, loc, ret>>

\* mining.cpp:591-592, 597  decide to precompute and store the height, or
\* enter timed_wait (which releases csBestBlock)
GBT_Precompute(t) ==
    /\ pc[t] = "precompute"
    /\ IF ~cached_next_cb_mtx.present /\ IsShieldedMinerAddress(loc[t].minerAddress)
       THEN /\ cached_next_cb_height' = loc[t].nHeight + 2
            /\ csBestBlock' = csBestBlock
            /\ loc' = loc
            /\ Goto(t, "precompute_store")
       ELSE /\ cached_next_cb_height' = cached_next_cb_height
            /\ csBestBlock' = NoThread
            /\ loc' = SetLoc(t, "waited", TRUE)
            /\ Goto(t, "waiting")
    /\ UNCHANGED <<submitVars, chainVars, mempoolVars, fRPCRunning, minerConfig, queryVars, now, cs_main,
                   nTransactionsUpdatedLast, cached_next_cb_mtx, pindexPrev, nStart,
                   pblocktemplate, lastBuiltTip, ret>>

\* mining.cpp:593-597  store the coinbase, then enter timed_wait
GBT_PrecomputeStore(t) ==
    /\ pc[t] = "precompute_store"
    /\ cached_next_cb_mtx' = CreateCoinbaseTransaction(0, cached_next_cb_height)
    /\ loc' = [loc EXCEPT ![t].next_cb_mtx = cached_next_cb_mtx', ![t].waited = TRUE]
    /\ csBestBlock' = NoThread
    /\ Goto(t, "waiting")
    /\ UNCHANGED <<submitVars, chainVars, mempoolVars, fRPCRunning, minerConfig, queryVars, now, cs_main,
                   nTransactionsUpdatedLast, cached_next_cb_height, pindexPrev, nStart,
                   pblocktemplate, lastBuiltTip, ret>>

\* a wait without a deadline
GBT_WaitTimeout_Never(t) ==
    /\ pc[t] = "waiting"
    /\ FALSE
    /\ UNCHANGED vars

\* mining.cpp:597  timed_wait reaches its absolute deadline
GBT_WaitTimeout(t) ==
    /\ pc[t] = "waiting"
    /\ now >= loc[t].checktxtime
    /\ loc' = SetLoc(t, "timedout", TRUE)
    /\ Goto(t, "relock")
    /\ UNCHANGED <<submitVars, chainVars, mempoolVars, fRPCRunning, minerConfig, queryVars, now, lockVars, gbtStatics, ret>>

\* mining.cpp:597  timed_wait returns without a notification or a timeout
GBT_SpuriousWake(t) ==
    /\ pc[t] = "waiting"
    /\ loc[t].checktxtime <= MaxTime
    /\ loc' = SetLoc(t, "timedout", FALSE)
    /\ Goto(t, "relock")
    /\ UNCHANGED <<submitVars, chainVars, mempoolVars, fRPCRunning, minerConfig, queryVars, now, lockVars, gbtStatics, ret>>

\* mining.cpp:597  timed_wait re-acquires csBestBlock before it returns
GBT_Relock(t) ==
    /\ pc[t] = "relock"
    /\ csBestBlock = NoThread
    /\ csBestBlock' = t
    /\ Goto(t, "enter_cs")
    /\ UNCHANGED <<submitVars, chainVars, mempoolVars, fRPCRunning, minerConfig, queryVars, now, cs_main, gbtStatics, loc, ret>>

\* mining.cpp:598  ENTER_CRITICAL_SECTION(cs_main)
GBT_EnterCsMain(t) ==
    /\ pc[t] = "enter_cs"
    /\ cs_main = NoThread
    /\ cs_main' = t
    /\ Goto(t, "recheck")
    /\ UNCHANGED <<submitVars, chainVars, mempoolVars, fRPCRunning, minerConfig, queryVars, now, csBestBlock, gbtStatics, loc, ret>>

\* a wait that only a new tip ends
WaitOutcome_TipOnly(tipHash, watched, timedout, txUpdated, txUpdatedLP) ==
    IF tipHash # watched THEN "tip" ELSE "again"

\* a wait that ends at every timeout, whatever the mempool counter
WaitOutcome_AnyTimeout(tipHash, watched, timedout, txUpdated, txUpdatedLP) ==
    IF tipHash # watched THEN "tip"
    ELSE IF timedout THEN "mempool"
    ELSE "again"

\* mining.cpp:602-611  what the caller finds after timed_wait
WaitOutcome(tipHash, watched, timedout, txUpdated, txUpdatedLP) ==
    IF tipHash # watched THEN "tip"
    ELSE IF timedout /\ txUpdated # txUpdatedLP THEN "mempool"
    ELSE "again"

\* mining.cpp:602-611  after the wait: tip change, timeout with mempool change,
\* or another round with the deadline moved
GBT_Recheck(t) ==
    /\ pc[t] = "recheck"
    /\ LET found == WaitOutcome(GetBlockHash(chainTip), loc[t].hashWatchedChain,
                                loc[t].timedout, nTransactionsUpdated,
                                loc[t].nTransactionsUpdatedLastLP)
       IN
       IF found = "tip"
       THEN /\ loc' = SetLoc(t, "timedout", FALSE)
            /\ Goto(t, "after_loop")
       ELSE IF found = "mempool"
       THEN /\ loc' = [loc EXCEPT ![t].next_cb_mtx = NoCb, ![t].timedout = FALSE]
            /\ Goto(t, "after_loop")
       ELSE /\ loc' = [loc EXCEPT ![t].checktxtime = @ + LongPollSeconds,
                                  ![t].timedout = FALSE]
            /\ Goto(t, "loop_cond")
    /\ UNCHANGED <<submitVars, chainVars, mempoolVars, fRPCRunning, minerConfig, queryVars, now, lockVars, gbtStatics, ret>>

\* CreateNewBlock(chainparams, minerAddress, next_cb_mtx): a precomputed coinbase
\* gives an empty block; otherwise the mempool's transactions are selected and
\* a coinbase collecting their fees is built for the next height
CreateNewBlock(tip, next_cb, pool) ==
    [live |-> TRUE,
     hashPrevBlock |-> GetBlockHash(tip),
     height |-> nHeightOf(tip) + 1,
     coinbase |-> IF next_cb.present THEN next_cb
                  ELSE CreateCoinbaseTransaction(Cardinality(pool), nHeightOf(tip) + 1),
     vtx |-> IF next_cb.present THEN {} ELSE pool,
     built |-> NoBuildRecord]

\* a counter that is always reset
NextTransactionsUpdatedLast_AlwaysZero(next_cb, pool, txUpdated) == 0

\* mining.cpp:633-640  the counter remembered for the next call
NextTransactionsUpdatedLast(next_cb, pool, txUpdated) ==
    IF next_cb.present /\ Cardinality(pool) > 0 THEN 0 ELSE txUpdated

\* mining.cpp:732-758  the reply object built from the current template
TemplateReply(tpl, prev, tip, txUpdatedLast) ==
    [kind |-> "template",
     previousblockhash |-> tpl.hashPrevBlock,
     transactions |-> tpl.vtx,
     coinbasetxn |-> tpl.coinbase,
     longpollid |-> StrLp(GetBlockHash(tip), txUpdatedLast),
     height |-> nHeightOf(prev) + 1]

\* an exit from the wait loop that does not look at the shutdown flag
GBT_AfterLoop_IgnoreShutdown(t) ==
    /\ pc[t] = "after_loop"
    /\ loc' = [loc EXCEPT
                 ![t].next_cb_mtx = IF TipIsNextHeight(nHeightOf(chainTip), loc[t].nHeight)
                                    THEN @ ELSE NoCb,
                 ![t].hashWatchedChain = UnknownHash,
                 ![t].nTransactionsUpdatedLastLP = 0,
                 ![t].checktxtime = 0]
    /\ csBestBlock' = NoThread
    /\ Goto(t, "update")
    /\ UNCHANGED <<submitVars, chainVars, mempoolVars, fRPCRunning, minerConfig, queryVars, now, cs_main, gbtStatics, ret>>

\* mining.cpp:613-620  drop the coinbase on an unexpected height, unlock
\* csBestBlock, fail on shutdown
GBT_AfterLoop(t) ==
    /\ pc[t] = "after_loop"
    /\ loc' = [loc EXCEPT
                 ![t].next_cb_mtx = IF TipIsNextHeight(nHeightOf(chainTip), loc[t].nHeight)
                                    THEN @ ELSE NoCb,
                 \* the locals of the long-poll block end their scope (mining.cpp:622)
                 ![t].hashWatchedChain = UnknownHash,
                 ![t].nTransactionsUpdatedLastLP = 0,
                 ![t].checktxtime = 0]
    /\ csBestBlock' = NoThread
    /\ IF ~fRPCRunning
       THEN /\ ret' = [ret EXCEPT ![t] =
                          [reply |-> ErrorReply("RPC_CLIENT_NOT_CONNECTED", "Shutting down"),
                           build |-> NoBuild]]
            /\ Goto(t, "return")
       ELSE /\ ret' = ret
            /\ Goto(t, "update")
    /\ UNCHANGED <<submitVars, chainVars, mempoolVars, fRPCRunning, minerConfig, queryVars, now, cs_main, gbtStatics>>

\* mining.cpp:625-760  rebuild the template when needed and build the reply
GBT_Update(t) ==
    /\ pc[t] = "update"
    /\ LET next_cb == loc[t].next_cb_mtx
           addr == loc[t].minerAddress
       IN IF ShouldRebuild(loc[t].lpval.kind = "null", pindexPrev, chainTip,
                           nTransactionsUpdated, nTransactionsUpdatedLast, now, nStart)
          THEN /\ nTransactionsUpdatedLast' =
                      NextTransactionsUpdatedLast(next_cb, mempool, nTransactionsUpdated)
               /\ nStart' = now
               /\ IF ~IsValidMinerAddress(addr)
                  THEN /\ pindexPrev' = NullIndex
                       /\ pblocktemplate' = NoTemplate
                       /\ lastBuiltTip' = lastBuiltTip
                       /\ ret' = [ret EXCEPT ![t] =
                             [reply |-> ErrorReply("RPC_INTERNAL_ERROR", "No miner address available"),
                              build |-> [NoBuild EXCEPT !.rebuilt = TRUE]]]
                  ELSE \E ok \in BOOLEAN :
                       LET called == [rebuilt |-> TRUE, invoked |-> TRUE, cb |-> next_cb,
                                      height |-> nHeightOf(chainTip) + 1]
                       IN IF ok
                          THEN /\ pblocktemplate' =
                                      [CreateNewBlock(chainTip, next_cb, mempool)
                                         EXCEPT !.built =
                                           [txUpdated |-> nTransactionsUpdated,
                                            precomputedOverPool |->
                                               next_cb.present /\ mempool # {}]]
                               /\ pindexPrev' = chainTip
                               /\ lastBuiltTip' = chainTip
                               /\ ret' = [ret EXCEPT ![t] =
                                     [reply |-> TemplateReply(pblocktemplate', pindexPrev',
                                                   chainTip, nTransactionsUpdatedLast'),
                                      build |-> called]]
                          ELSE /\ pblocktemplate' = NoTemplate
                               /\ pindexPrev' = NullIndex
                               /\ lastBuiltTip' = lastBuiltTip
                               /\ ret' = [ret EXCEPT ![t] =
                                     [reply |-> ErrorReply("RPC_OUT_OF_MEMORY", "Out of memory"),
                                      build |-> called]]
          ELSE /\ UNCHANGED <<nTransactionsUpdatedLast, nStart, pindexPrev, pblocktemplate,
                             lastBuiltTip>>
               /\ ret' = [ret EXCEPT ![t] =
                     [reply |-> TemplateReply(pblocktemplate, pindexPrev, chainTip,
                                              nTransactionsUpdatedLast),
                      build |-> NoBuild]]
    /\ Goto(t, "return")
    /\ UNCHANGED <<submitVars, chainVars, mempoolVars, fRPCRunning, minerConfig, queryVars, now, lockVars,
                   cached_next_cb_mtx, cached_next_cb_height, loc>>

\* mining.cpp:475, 760  the reply leaves the function and LOCK(cs_main) ends
GBT_Return(t) ==
    /\ pc[t] = "return"
    /\ cs_main' = NoThread
    /\ loc' = [loc EXCEPT ![t] = NoLocals]
    /\ ret' = [ret EXCEPT ![t] = NoResult]
    /\ Goto(t, "idle")
    /\ UNCHANGED <<submitVars, chainVars, mempoolVars, fRPCRunning, minerConfig, queryVars, now, csBestBlock, gbtStatics>>

(* ---------------------------- environment ------------------------------ *)
Waiting(t) == pc[t] = "waiting"
InLongPollWait(t) ==
    pc[t] \in {"precompute", "precompute_store", "waiting", "relock", "enter_cs"}

\* the chain-activation path: a new tip under cs_main, the transactions its
\* blocks confirmed or expired leave the mempool, then cvBlockChange.notify_all()
UpdateTip(b) ==
    /\ cs_main = NoThread
    /\ b # chainTip
    /\ nHeightOf(b) >= nHeightOf(chainTip)
    /\ \A a \in Ancestors(b) : ~mapBlockIndex[a].failed
    /\ \A t \in RPCThreads : Waiting(t) => loc[t].checktxtime <= MaxTime
    /\ chainTip' = b
    /\ mapBlockIndex' = [a \in Blocks |-> IF a \in Ancestors(b) THEN StValid
                                          ELSE mapBlockIndex[a]]
    /\ \/ UNCHANGED mempoolVars
       \/ /\ mempool # {}
          /\ nTransactionsUpdated < MaxTxUpdated
          /\ mempool' = {}
          /\ nTransactionsUpdated' = nTransactionsUpdated + 1
    /\ pc' = [t \in RPCThreads |-> IF Waiting(t) THEN "relock" ELSE pc[t]]
    /\ loc' = [t \in RPCThreads |->
                  IF Waiting(t) THEN [loc[t] EXCEPT !.timedout = FALSE] ELSE loc[t]]
    /\ UNCHANGED <<submitVars, fRPCRunning, minerConfig, queryVars, now, lockVars, gbtStatics, ret>>

\* a transaction enters the mempool
MempoolAdd ==
    /\ cs_main = NoThread
    /\ nTransactionsUpdated < MaxTxUpdated
    /\ nTransactionsUpdated' = nTransactionsUpdated + 1
    /\ mempool' = mempool \cup {nTransactionsUpdated'}
    /\ UNCHANGED <<submitVars, chainVars, fRPCRunning, minerConfig, queryVars, now, lockVars, gbtStatics, pc, loc, ret>>

\* the clock advances
Tick ==
    /\ now + ClockStep <= MaxTime
    /\ now' = now + ClockStep
    /\ UNCHANGED <<submitVars, chainVars, mempoolVars, fRPCRunning, minerConfig, queryVars, lockVars, gbtStatics, pc, loc, ret>>

\* the node begins to shut down.  Only the long-poll loop reads the flag, so
\* the shutdown is taken while a caller is between leaving and re-entering
\* cs_main
StopRPC ==
    /\ fRPCRunning
    /\ \E t \in RPCThreads : InLongPollWait(t)
    /\ fRPCRunning' = FALSE
    /\ UNCHANGED <<submitVars, minerConfig, queryVars, chainVars, mempoolVars, now, lockVars, gbtStatics, pc, loc, ret>>

GBT_Step(t) ==
    \/ GBT_Call(t)
    \/ GBT_Entry(t)
    \/ GBT_LockBestBlock(t)
    \/ GBT_LoopCond(t)
    \/ GBT_Precompute(t)
    \/ GBT_PrecomputeStore(t)
    \/ GBT_WaitTimeout(t)
    \/ GBT_SpuriousWake(t)
    \/ GBT_Relock(t)
    \/ GBT_EnterCsMain(t)
    \/ GBT_Recheck(t)
    \/ GBT_AfterLoop(t)
    \/ GBT_Update(t)
    \/ GBT_Return(t)

Environment ==
    \/ \E b \in Blocks : UpdateTip(b)
    \/ MempoolAdd
    \/ Tick
    \/ StopRPC

\* one RPC worker serving getblocktemplate calls one after the other
Next ==
    \/ GBT_Step("t1")
    \/ Environment

Spec == Init /\ [][Next]_vars

\* mining.cpp:559-575  a miner polls with the longpollid of the template it
\* works on: the tip's hash and the counter the template was built at
GBT_LongPollCall(t) ==
    /\ GBT_Call(t)
    /\ loc'[t].lpval = StrLp(GetBlockHash(chainTip), nTransactionsUpdatedLast)
    /\ IsValidMinerAddress(loc'[t].minerAddress)

LongPoll_Step(t) ==
    \/ GBT_LongPollCall(t)
    \/ GBT_Entry(t)
    \/ GBT_LockBestBlock(t)
    \/ GBT_LoopCond(t)
    \/ GBT_Precompute(t)
    \/ GBT_PrecomputeStore(t)
    \/ GBT_WaitTimeout(t)
    \/ GBT_SpuriousWake(t)
    \/ GBT_Relock(t)
    \/ GBT_EnterCsMain(t)
    \/ GBT_Recheck(t)
    \/ GBT_AfterLoop(t)
    \/ GBT_Update(t)
    \/ GBT_Return(t)

\* two RPC workers serving long polls side by side, with the chain-activation
\* thread and the clock
NextLongPoll ==
    \/ LongPoll_Step("t1")
    \/ LongPoll_Step("t2")
    \/ \E b \in Blocks : UpdateTip(b)
    \/ Tick

SpecLongPoll == Init /\ [][NextLongPoll]_vars

\* one RPC worker serving long polls, with the chain-activation thread, the
\* mempool and the clock
NextOnePoll ==
    \/ LongPoll_Step("t1")
    \/ \E b \in Blocks : UpdateTip(b)
    \/ MempoolAdd
    \/ Tick

\* the steps a call takes once made, a wake-up without cause left out
LongPoll_Progress(t) ==
    \/ GBT_Entry(t)
    \/ GBT_LockBestBlock(t)
    \/ GBT_LoopCond(t)
    \/ GBT_Precompute(t)
    \/ GBT_PrecomputeStore(t)
    \/ GBT_WaitTimeout(t)
    \/ GBT_Relock(t)
    \/ GBT_EnterCsMain(t)
    \/ GBT_Recheck(t)
    \/ GBT_AfterLoop(t)
    \/ GBT_Update(t)

\* fair scheduling: time passes, every timed wait ends at its deadline at the
\* latest, every lock request is granted, every step of the call is taken
SpecOnePollFair ==
    /\ Init
    /\ [][NextOnePoll]_vars
    /\ WF_vars(Tick)
    /\ WF_vars(LongPoll_Progress("t1"))

(* ------------------ submitblock and proposal mode ---------------------- *)
\* the data a client can submit: the serialization of a block of the tree, or
\* bytes that do not decode
Undecodable == <<-3, 0>>
SubmitInputs == Blocks \cup {Undecodable}
DecodeHexBlk(data) == data \in Blocks

Verdict(v) == [kind |-> "verdict", value |-> v]
DuplicateVerdicts == {"duplicate", "duplicate-invalid", "duplicate-inconclusive"}

\* CBlockIndex::IsValid(BLOCK_VALID_SCRIPTS): validated to script level and not
\* marked failed
IsValid(st) == st.known /\ ~st.failed /\ st.scripts

\* a translation that reports an internal error as a reject reason
BIP22ValidationResult_NoThrow(state) ==
    IF state.mode = "valid" THEN Verdict("null")
    ELSE IF state.reason = "" THEN Verdict("rejected")
    ELSE Verdict(state.reason)

\* a translation that raises every state that is not valid
BIP22ValidationResult_RaiseAll(state) ==
    IF state.mode = "valid" THEN Verdict("null")
    ELSE ErrorReply("RPC_VERIFY_ERROR", state.reason)

\* mining.cpp:384-399  BIP22ValidationResult
BIP22ValidationResult(state) ==
    IF state.mode = "valid" THEN Verdict("null")
    ELSE IF state.mode = "error" THEN ErrorReply("RPC_VERIFY_ERROR", state.reason)
    ELSE IF state.mode = "invalid"
         THEN (IF state.reason = "" THEN Verdict("rejected") ELSE Verdict(state.reason))
    ELSE Verdict("valid?")

\* an index test that takes every indexed block for a valid one
SubmitIndexVerdict_AnyIsDuplicate(st) ==
    IF ~st.known THEN "absent" ELSE "duplicate"

\* mining.cpp:814-824  submitblock's test of the block index
SubmitIndexVerdict(st) ==
    IF ~st.known THEN "absent"
    ELSE IF IsValid(st) THEN "duplicate"
    ELSE IF st.failed THEN "duplicate-invalid"
    ELSE "present"

\* mining.cpp:513-521  proposal mode's test of the block index
ProposalIndexVerdict(st) ==
    IF ~st.known THEN "absent"
    ELSE IF IsValid(st) THEN "duplicate"
    ELSE IF st.failed THEN "duplicate-invalid"
    ELSE "duplicate-inconclusive"

\* a catcher that records the state of every checked block
BlockChecked_AnyHash(call, blockHash, stateIn) ==
    [call EXCEPT !.found = TRUE, !.scState = stateIn]

\* mining.cpp:773-779  submitblock_StateCatcher::BlockChecked
BlockChecked(call, blockHash, stateIn) ==
    IF blockHash # GetBlockHash(call.block) THEN call
    ELSE [call EXCEPT !.found = TRUE, !.scState = stateIn]

\* a verdict that forgets whether the block was in the index before
SubmitVerdict_IgnorePresent(fBlockPresent, fAccepted, found, scState, state) ==
    IF fAccepted /\ ~found THEN Verdict("inconclusive")
    ELSE BIP22ValidationResult(IF fAccepted THEN scState ELSE state)

\* mining.cpp:832-842  the verdict after ProcessNewBlock
SubmitVerdict(fBlockPresent, fAccepted, found, scState, state) ==
    IF fBlockPresent
    THEN (IF fAccepted /\ ~found THEN Verdict("duplicate-inconclusive")
          ELSE Verdict("duplicate"))
    ELSE IF fAccepted /\ ~found THEN Verdict("inconclusive")
    ELSE BIP22ValidationResult(IF fAccepted THEN scState ELSE state)

MarkValid(index, b) ==
    [a \in Blocks |-> IF a \in Ancestors(b) THEN StValid ELSE index[a]]
MarkFailed(index, b) == [index EXCEPT ![b] = [@ EXCEPT !.known = TRUE, !.failed = TRUE]]
MarkStored(index, b) == [index EXCEPT ![b] = [@ EXCEPT !.known = TRUE]]
NoSignal == [fired |-> FALSE, state |-> ValidState]
Signal(state) == [fired |-> TRUE, state |-> state]

\* the block can become the tip: its ancestors are fully valid and it has more
\* work than the active tip
Connectable(b, index, tip) ==
    /\ \A a \in Ancestors(pprev(b)) : IsValid(index[a])
    /\ nHeightOf(b) > nHeightOf(tip)

PNB_Result(accepted, state, signal, index, tip) ==
    [accepted |-> accepted, state |-> state, signal |-> signal, index |-> index,
     tip |-> tip]

\* ProcessNewBlock(state, chainparams, NULL, &block, true, NULL): what the
\* consensus validator can do with block b
ProcessNewBlock(b, index, tip) ==
    IF IsValid(index[b])
    THEN \* the block is already validated: nothing to do
         {PNB_Result(TRUE, ValidState, NoSignal, index, tip)}
    ELSE IF index[b].failed
    THEN \* the header is known to be invalid
         {PNB_Result(FALSE, st, NoSignal, index, tip) : st \in InvalidStates}
    ELSE \* CheckBlock fails: rejected, nothing indexed
         {PNB_Result(FALSE, st, NoSignal, index, tip) : st \in InvalidStates}
         \cup \* an internal error, found before or while the block is connected
         UNION {{PNB_Result(FALSE, st, NoSignal, index, tip),
                 PNB_Result(FALSE, st, Signal(st), index, tip)} : st \in ErrorStates}
         \cup (IF index[pprev(b)].known
               THEN \* AcceptBlock fails: rejected and marked failed
                    {PNB_Result(FALSE, st, NoSignal, MarkFailed(index, b), tip) :
                         st \in InvalidStates}
               ELSE {})
         \cup (IF index[pprev(b)].known /\ ~index[pprev(b)].failed
               THEN \* stored, not on the best chain: no BlockChecked signal
                    {PNB_Result(TRUE, ValidState, NoSignal, MarkStored(index, b), tip)}
               ELSE {})
         \cup (IF Connectable(b, index, tip)
               THEN \* connected as the new tip
                    {PNB_Result(TRUE, ValidState, Signal(ValidState),
                                MarkValid(index, b), b)}
                    \cup \* ConnectBlock finds it invalid: marked failed, yet accepted
                    {PNB_Result(TRUE, ValidState, Signal(st), MarkFailed(index, b), tip) :
                         st \in InvalidStates}
               ELSE {})

\* TestBlockValidity(state, chainparams, block, pindexPrev, true)
TestBlockValidity == {ValidState} \cup InvalidStates \cup ErrorStates

SubmitReturn(t, reply) ==
    /\ ret' = [ret EXCEPT ![t] = [reply |-> reply, build |-> NoBuild]]
    /\ Goto(t, "sb_return")

\* mining.cpp:807-825  decode the block and look it up under cs_main
SB_Call(t) ==
    /\ pc[t] = "idle"
    /\ cs_main = NoThread
    /\ \E data \in SubmitInputs :
          LET call == [NoSb EXCEPT !.mode = "submit", !.block = data]
          IN IF ~DecodeHexBlk(data)
             THEN /\ sb' = [sb EXCEPT ![t] = call]
                  /\ SubmitReturn(t, ErrorReply("RPC_DESERIALIZATION_ERROR",
                                                "Block decode failed"))
             ELSE LET found == SubmitIndexVerdict(mapBlockIndex[data])
                  IN IF found \in {"duplicate", "duplicate-invalid"}
                     THEN /\ sb' = [sb EXCEPT ![t] = call]
                          /\ SubmitReturn(t, Verdict(found))
                     ELSE /\ sb' = [sb EXCEPT ![t] =
                                       [call EXCEPT !.fBlockPresent = (found = "present")]]
                          /\ ret' = ret
                          /\ Goto(t, "sb_checked")
    /\ UNCHANGED <<chainVars, mempoolVars, fRPCRunning, minerConfig, queryVars, now, lockVars,
                   gbtStatics, loc, acceptedBlocks>>

\* mining.cpp:827-829  RegisterValidationInterface(&sc)
SB_Register(t) ==
    /\ pc[t] = "sb_checked"
    /\ sb' = [sb EXCEPT ![t].registered = TRUE]
    /\ Goto(t, "sb_registered")
    /\ UNCHANGED <<chainVars, mempoolVars, fRPCRunning, minerConfig, queryVars, now, lockVars,
                   gbtStatics, loc, ret, acceptedBlocks>>

\* mining.cpp:830  ProcessNewBlock, with the catcher listening
SB_ProcessNewBlock(t) ==
    /\ pc[t] = "sb_registered"
    /\ cs_main = NoThread
    /\ \E o \in ProcessNewBlock(sb[t].block, mapBlockIndex, chainTip) :
          /\ mapBlockIndex' = o.index
          /\ chainTip' = o.tip
          /\ sb' = [sb EXCEPT ![t] =
                      LET heard == IF o.signal.fired
                                   THEN BlockChecked(sb[t], GetBlockHash(sb[t].block),
                                                     o.signal.state)
                                   ELSE sb[t]
                      IN [heard EXCEPT !.fAccepted = o.accepted, !.state = o.state,
                                       !.called = TRUE]]
    /\ Goto(t, "sb_processed")
    /\ UNCHANGED <<mempoolVars, fRPCRunning, minerConfig, queryVars, now, lockVars, gbtStatics,
                   loc, ret, acceptedBlocks>>

\* mining.cpp:831-842  UnregisterValidationInterface(&sc) and the verdict
SB_Verdict(t) ==
    /\ pc[t] = "sb_processed"
    /\ sb' = [sb EXCEPT ![t].registered = FALSE]
    /\ SubmitReturn(t, SubmitVerdict(sb[t].fBlockPresent, sb[t].fAccepted, sb[t].found,
                                     sb[t].scState, sb[t].state))
    /\ UNCHANGED <<chainVars, mempoolVars, fRPCRunning, minerConfig, queryVars, now, lockVars,
                   gbtStatics, loc, acceptedBlocks>>

\* the reply of submitblock or of a proposal leaves the function
SB_Return(t) ==
    /\ pc[t] = "sb_return"
    /\ acceptedBlocks' = IF sb[t].mode = "submit" /\ sb[t].called /\ sb[t].fAccepted
                         THEN acceptedBlocks \cup {sb[t].block} ELSE acceptedBlocks
    /\ sb' = [sb EXCEPT ![t] = NoSb]
    /\ ret' = [ret EXCEPT ![t] = NoResult]
    /\ Goto(t, "idle")
    /\ UNCHANGED <<chainVars, mempoolVars, fRPCRunning, minerConfig, queryVars, now, lockVars,
                   gbtStatics, loc>>

\* a proposal handled like a submission: a valid block becomes the tip
GBT_Proposal_Connects(t) ==
    /\ pc[t] = "idle"
    /\ cs_main = NoThread
    /\ \E data \in Blocks :
          /\ ~mapBlockIndex[data].known
          /\ GetBlockHash(pprev(data)) = GetBlockHash(chainTip)
          /\ sb' = [sb EXCEPT ![t] = [NoSb EXCEPT !.mode = "proposal", !.block = data,
                                                  !.called = TRUE]]
          /\ mapBlockIndex' = MarkValid(mapBlockIndex, data)
          /\ chainTip' = data
          /\ SubmitReturn(t, BIP22ValidationResult(ValidState))
    /\ UNCHANGED <<mempoolVars, fRPCRunning, minerConfig, queryVars, now, lockVars,
                   gbtStatics, loc, acceptedBlocks>>

\* a proposal that compares the previous-block hash before it looks the block
\* up in the index
GBT_Proposal_PrevFirst(t) ==
    /\ pc[t] = "idle"
    /\ cs_main = NoThread
    /\ \E data \in Blocks, would \in TestBlockValidity :
          LET call == [NoSb EXCEPT !.mode = "proposal", !.block = data,
                                   !.wouldBe = would]
              found == ProposalIndexVerdict(mapBlockIndex[data])
          IN IF GetBlockHash(pprev(data)) # GetBlockHash(chainTip)
             THEN /\ sb' = [sb EXCEPT ![t] = call]
                  /\ SubmitReturn(t, Verdict("inconclusive-not-best-prevblk"))
             ELSE IF found # "absent"
             THEN /\ sb' = [sb EXCEPT ![t] = call]
                  /\ SubmitReturn(t, Verdict(found))
             ELSE /\ sb' = [sb EXCEPT ![t] =
                               [call EXCEPT !.state = would, !.called = TRUE]]
                  /\ SubmitReturn(t, BIP22ValidationResult(would))
    /\ UNCHANGED <<chainVars, mempoolVars, fRPCRunning, minerConfig, queryVars, now, lockVars,
                   gbtStatics, loc, acceptedBlocks>>

\* mining.cpp:475, 503-531  getblocktemplate in proposal mode, under cs_main;
\* `would` is what TestBlockValidity finds for the block on the current tip
GBT_Proposal(t) ==
    /\ pc[t] = "idle"
    /\ cs_main = NoThread
    /\ \E data \in SubmitInputs, would \in TestBlockValidity :
          LET call == [NoSb EXCEPT !.mode = "proposal", !.block = data,
                                   !.wouldBe = would]
          IN IF ~DecodeHexBlk(data)
             THEN /\ sb' = [sb EXCEPT ![t] = call]
                  /\ SubmitReturn(t, ErrorReply("RPC_DESERIALIZATION_ERROR",
                                                "Block decode failed"))
             ELSE LET found == ProposalIndexVerdict(mapBlockIndex[data])
                  IN IF found # "absent"
                     THEN /\ sb' = [sb EXCEPT ![t] = call]
                          /\ SubmitReturn(t, Verdict(found))
                     ELSE IF GetBlockHash(pprev(data)) # GetBlockHash(chainTip)
                     THEN /\ sb' = [sb EXCEPT ![t] = call]
                          /\ SubmitReturn(t, Verdict("inconclusive-not-best-prevblk"))
                     ELSE /\ sb' = [sb EXCEPT ![t] =
                                       [call EXCEPT !.state = would, !.called = TRUE]]
                          /\ SubmitReturn(t, BIP22ValidationResult(would))
    /\ UNCHANGED <<chainVars, mempoolVars, fRPCRunning, minerConfig, queryVars, now, lockVars,
                   gbtStatics, loc, acceptedBlocks>>

\* a header received from a peer enters the block index
HeaderArrives(b) ==
    /\ cs_main = NoThread
    /\ ~mapBlockIndex[b].known
    /\ mapBlockIndex[pprev(b)].known
    /\ mapBlockIndex' = [mapBlockIndex EXCEPT ![b] = StHeader]
    /\ UNCHANGED <<chainTip, mempoolVars, fRPCRunning, minerConfig, queryVars, now, lockVars,
                   gbtStatics, pc, loc, ret, submitVars>>

\* a block received from a peer is processed by the message handler; the
\* catchers registered at that time hear its BlockChecked signal
PeerBlock(b) ==
    /\ cs_main = NoThread
    /\ ~IsValid(mapBlockIndex[b])
    /\ \E o \in ProcessNewBlock(b, mapBlockIndex, chainTip) :
          /\ mapBlockIndex' = o.index
          /\ chainTip' = o.tip
          /\ sb' = [t \in RPCThreads |->
                      IF sb[t].registered /\ o.signal.fired
                      THEN BlockChecked(sb[t], GetBlockHash(b), o.signal.state)
                      ELSE sb[t]]
    /\ UNCHANGED <<mempoolVars, fRPCRunning, minerConfig, queryVars, now, lockVars, gbtStatics,
                   pc, loc, ret, acceptedBlocks>>

Descendants(b) == {d \in Blocks : b \in Ancestors(d)}

\* blockchain.cpp:1324-1358  invalidateblock: the block and its indexed
\* descendants are marked failed and leave the active chain
InvalidateBlock(b) ==
    /\ cs_main = NoThread
    /\ b # Genesis
    /\ mapBlockIndex[b].known
    /\ ~mapBlockIndex[b].failed
    /\ mapBlockIndex' = [d \in Blocks |->
                            IF d \in Descendants(b) /\ mapBlockIndex[d].known
                            THEN [mapBlockIndex[d] EXCEPT !.failed = TRUE]
                            ELSE mapBlockIndex[d]]
    /\ chainTip' = IF chainTip \in Descendants(b) THEN pprev(b) ELSE chainTip
    /\ UNCHANGED <<mempoolVars, fRPCRunning, minerConfig, queryVars, now, lockVars, gbtStatics,
                   pc, loc, ret, submitVars>>

\* a node that knows only the genesis block, with no RPC call in progress
InitSubmit ==
    /\ chainTip = Genesis
    /\ mapBlockIndex = [b \in Blocks |-> IF b = Genesis THEN StValid ELSE StNone]
    /\ mempool = {}
    /\ nTransactionsUpdated = 0
    /\ fRPCRunning = TRUE
    /\ minerConfig = "transparent"
    /\ now = 0
    /\ cs_main = NoThread
    /\ csBestBlock = NoThread
    /\ nTransactionsUpdatedLast = 0
    /\ cached_next_cb_mtx = NoCb
    /\ cached_next_cb_height = 0
    /\ pindexPrev = NullIndex
    /\ nStart = 0
    /\ pblocktemplate = NoTemplate
    /\ lastBuiltTip = NullIndex
    /\ pc = [t \in RPCThreads |-> "idle"]
    /\ loc = [t \in RPCThreads |-> NoLocals]
    /\ ret = [t \in RPCThreads |-> NoResult]
    /\ sb = [t \in RPCThreads |-> NoSb]
    /\ acceptedBlocks = {}
    /\ consensus = DefaultConsensus
    /\ nTime = [h \in ChainHeights |-> 0]
    /\ blockProof = [h \in ChainHeights |-> 1]
    /\ query = NoQuery
    /\ NoStreams

SB_Step(t) ==
    \/ SB_Call(t)
    \/ SB_Register(t)
    \/ SB_ProcessNewBlock(t)
    \/ SB_Verdict(t)
    \/ SB_Return(t)
    \/ GBT_Proposal(t)

SubmitEnvironment ==
    \/ \E b \in Blocks \ {Genesis} : HeaderArrives(b)
    \/ \E b \in Blocks \ {Genesis} : PeerBlock(b)
    \/ \E b \in Blocks : InvalidateBlock(b)

\* one RPC worker serving submitblock and proposal calls while peers deliver
\* headers and blocks
NextSubmit ==
    \/ SB_Step("t1")
    \/ SubmitEnvironment

SpecSubmit == InitSubmit /\ [][NextSubmit]_vars

(* ------------------------------ generate ------------------------------- *)
\* a check that found nothing wrong: the call goes on to the named stage
Proceed(stage) == [kind |-> "proceed", stage |-> stage]

\* the largest number of blocks a generate call is asked for
MaxGenerate == 2
GenerateCounts == 0..MaxGenerate

\* the block a miner builds on top of tip, when the block tree has one
Children(tip) == {b \in Blocks \ {Genesis} : pprev(b) = tip /\ b # tip}

\* a check of the miner address that does not look for the null script
GenerateAddressCheck_ValidityOnly(addr) ==
    IF ~IsValidMinerAddress(addr)
    THEN ErrorReply("RPC_INTERNAL_ERROR", "No miner address available")
    ELSE Proceed("mine")

\* mining.cpp:187-196  generate's checks of the miner address
GenerateAddressCheck(addr) ==
    IF addr = "exhausted"
    THEN ErrorReply("RPC_WALLET_KEYPOOL_RAN_OUT", "Error: Keypool ran out")
    ELSE IF ~IsValidMinerAddress(addr)
    THEN ErrorReply("RPC_INTERNAL_ERROR", "No miner address available")
    ELSE Proceed("mine")

BlockHashes(hashes) == [kind |-> "hashes", value |-> hashes]

\* mining.cpp:176-203  generate: the network check, the miner address and its
\* checks, then the start and end heights read under cs_main
Gen_Call(t) ==
    /\ pc[t] = "idle"
    /\ \E regtest \in BOOLEAN, nGenerate \in GenerateCounts,
          addr \in AddressForMining(minerConfig) :
          LET l1 == [NoLocals EXCEPT !.minerAddress = addr]
              failed(reply) ==
                  /\ loc' = [loc EXCEPT ![t] = l1]
                  /\ ret' = [ret EXCEPT ![t] = [reply |-> reply, build |-> NoBuild]]
                  /\ Goto(t, "gen_return")
          IN IF ~regtest
             THEN failed(ErrorReply("RPC_METHOD_NOT_FOUND",
                                    "This method can only be used on regtest"))
             ELSE IF GenerateAddressCheck(addr).kind = "error"
             THEN failed(GenerateAddressCheck(addr))
             ELSE /\ cs_main = NoThread
                  /\ loc' = [loc EXCEPT ![t] =
                               [l1 EXCEPT !.nHeight = nHeightOf(chainTip),
                                          !.nHeightEnd = nHeightOf(chainTip) + nGenerate]]
                  /\ ret' = [ret EXCEPT ![t] = [reply |-> BlockHashes(<< >>),
                                                build |-> NoBuild]]
                  /\ Goto(t, "gen_loop")
    /\ UNCHANGED <<submitVars, chainVars, mempoolVars, fRPCRunning, minerConfig, queryVars, now,
                   lockVars, gbtStatics>>

\* mining.cpp:207-260  one round of generate's loop: build a block on the tip,
\* solve it and hand it to ProcessNewBlock
Gen_Mine(t) ==
    /\ pc[t] = "gen_loop"
    /\ loc[t].nHeight < loc[t].nHeightEnd
    /\ cs_main = NoThread
    /\ \/ /\ \E reply \in {ErrorReply("RPC_INTERNAL_ERROR", "Couldn't create new block"),
                           ErrorReply("RPC_INTERNAL_ERROR",
                                      "ProcessNewBlock, block not accepted")} :
                ret' = [ret EXCEPT ![t] = [reply |-> reply, build |-> NoBuild]]
          /\ pc' = [pc EXCEPT ![t] = "gen_return"]
          /\ UNCHANGED <<chainVars, mempoolVars, loc>>
       \/ \E b \in Children(chainTip) :
             /\ ~mapBlockIndex[b].failed
             /\ chainTip' = b
             /\ mapBlockIndex' = MarkValid(mapBlockIndex, b)
             /\ \/ UNCHANGED mempoolVars
                \/ /\ mempool # {}
                   /\ nTransactionsUpdated < MaxTxUpdated
                   /\ mempool' = {}
                   /\ nTransactionsUpdated' = nTransactionsUpdated + 1
             /\ ret' = [ret EXCEPT ![t].reply =
                          BlockHashes(Append(ret[t].reply.value, GetBlockHash(b)))]
             /\ pc' = [u \in RPCThreads |-> IF u # t /\ Waiting(u) THEN "relock" ELSE pc[u]]
             /\ loc' = [u \in RPCThreads |->
                          IF u = t THEN [loc[t] EXCEPT !.nHeight = @ + 1]
                          ELSE IF Waiting(u) THEN [loc[u] EXCEPT !.timedout = FALSE]
                          ELSE loc[u]]
    /\ UNCHANGED <<submitVars, fRPCRunning, minerConfig, queryVars, now, lockVars, gbtStatics>>

\* mining.cpp:206, 262  the loop ends and the hashes are returned, or an
\* error leaves the function
Gen_Return(t) ==
    /\ \/ pc[t] = "gen_return"
       \/ pc[t] = "gen_loop" /\ loc[t].nHeight >= loc[t].nHeightEnd
    /\ loc' = [loc EXCEPT ![t] = NoLocals]
    /\ ret' = [ret EXCEPT ![t] = NoResult]
    /\ Goto(t, "idle")
    /\ UNCHANGED <<submitVars, chainVars, mempoolVars, fRPCRunning, minerConfig, queryVars, now,
                   lockVars, gbtStatics>>

\* mining.cpp:559  a getblocktemplate call without a longpollid
GBT_PlainCall(t) ==
    /\ GBT_Call(t)
    /\ loc'[t].lpval = NullLp

\* a regtest node that mines to its wallet: no -mineraddress is set
InitWallet ==
    /\ chainTip = Genesis
    /\ mapBlockIndex = [b \in Blocks |-> StValid]
    /\ mempool = {}
    /\ nTransactionsUpdated = 0
    /\ fRPCRunning = TRUE
    /\ minerConfig = "wallet"
    /\ now = 0
    /\ cs_main = NoThread
    /\ csBestBlock = NoThread
    /\ nTransactionsUpdatedLast = 0
    /\ cached_next_cb_mtx = NoCb
    /\ cached_next_cb_height = 0
    /\ pindexPrev = NullIndex
    /\ nStart = 0
    /\ pblocktemplate = NoTemplate
    /\ lastBuiltTip = NullIndex
    /\ pc = [t \in RPCThreads |-> "idle"]
    /\ loc = [t \in RPCThreads |-> NoLocals]
    /\ ret = [t \in RPCThreads |-> NoResult]
    /\ sb = [t \in RPCThreads |-> NoSb]
    /\ acceptedBlocks = {}
    /\ consensus = DefaultConsensus
    /\ nTime = [h \in ChainHeights |-> 0]
    /\ blockProof = [h \in ChainHeights |-> 1]
    /\ query = NoQuery
    /\ NoStreams

\* one RPC worker serving generate and getblocktemplate calls, with the
\* mempool and the clock
NextWallet ==
    \/ Gen_Call("t1")
    \/ Gen_Mine("t1")
    \/ Gen_Return("t1")
    \/ GBT_PlainCall("t1")
    \/ GBT_Entry("t1")
    \/ GBT_Update("t1")
    \/ GBT_Return("t1")
    \/ MempoolAdd
    \/ Tick

SpecWallet == InitWallet /\ [][NextWallet]_vars

(* --------------------- request validation ------------------------------ *)
\* the parts of a getblocktemplate request and of the node's condition that
\* the checks before the long-poll stage read: the "mode" value (absent, one
\* of three strings, or not a string), the "data" value of a proposal, the
\* network, whether a peer is connected and whether the node is still in its
\* initial block download
TemplateModes == {"absent", "template"}
Request(mode, data, regtest, peers, ibd) ==
    [mode |-> mode, data |-> data, regtest |-> regtest, peers |-> peers, ibd |-> ibd]
Requests ==
    {Request(m, "missing", FALSE, TRUE, FALSE) : m \in {"nonstr", "other"}}
    \cup {Request(m, "missing", FALSE, FALSE, TRUE) : m \in {"nonstr", "other"}}
    \cup {Request("proposal", d, r, FALSE, TRUE) :
             d \in {"missing", "nonstr", "string"}, r \in BOOLEAN}
    \cup {Request(m, "missing", r, c, i) :
             m \in TemplateModes, r \in BOOLEAN, c \in BOOLEAN, i \in BOOLEAN}

\* a validation that looks at the node's condition before the mode
ValidateRequest_ConditionFirst(req) ==
    IF ~req.regtest /\ ~req.peers
    THEN ErrorReply("RPC_CLIENT_NOT_CONNECTED", "Zcash is not connected!")
    ELSE IF req.ibd
    THEN ErrorReply("RPC_CLIENT_IN_INITIAL_DOWNLOAD", "Zcash is downloading blocks...")
    ELSE IF req.mode \in {"nonstr", "other"}
    THEN ErrorReply("RPC_INVALID_PARAMETER", "Invalid mode")
    ELSE IF req.mode = "proposal"
    THEN (IF req.data # "string"
          THEN ErrorReply("RPC_TYPE_ERROR", "Missing data String key for proposal")
          ELSE Proceed("proposal"))
    ELSE Proceed("template")

\* mining.cpp:488-540  the checks of getblocktemplate before the miner address
\* is asked for, up to the decoding of a proposal's data
ValidateRequest(req) ==
    IF req.mode = "nonstr"
    THEN ErrorReply("RPC_INVALID_PARAMETER", "Invalid mode")
    ELSE IF req.mode = "proposal"
    THEN (IF req.data # "string"
          THEN ErrorReply("RPC_TYPE_ERROR", "Missing data String key for proposal")
          ELSE Proceed("proposal"))
    ELSE IF req.mode \notin TemplateModes
    THEN ErrorReply("RPC_INVALID_PARAMETER", "Invalid mode")
    ELSE IF ~req.regtest /\ ~req.peers
    THEN ErrorReply("RPC_CLIENT_NOT_CONNECTED", "Zcash is not connected!")
    ELSE IF req.ibd
    THEN ErrorReply("RPC_CLIENT_IN_INITIAL_DOWNLOAD", "Zcash is downloading blocks...")
    ELSE Proceed("template")

\* mining.cpp:475-540  a getblocktemplate call that a check stops: the
\* exception leaves the function and LOCK(cs_main) ends
GBT_InvalidRequest(t) ==
    /\ pc[t] = "idle"
    /\ cs_main = NoThread
    /\ \E req \in Requests :
          /\ ValidateRequest(req).kind = "error"
          /\ ret' = [ret EXCEPT ![t] = [reply |-> ValidateRequest(req), build |-> NoBuild,
                                        request |-> req]]
    /\ cs_main' = t
    /\ Goto(t, "return")
    /\ UNCHANGED <<submitVars, chainVars, mempoolVars, fRPCRunning, minerConfig, queryVars, now,
                   csBestBlock, gbtStatics, loc>>

\* mining.cpp:508-510  a proposal whose data does not decode
GBT_UndecodableProposal(t) ==
    /\ GBT_Proposal(t)
    /\ sb'[t].block = Undecodable

\* mining.cpp:807-809  a submitblock call whose data does not decode
SB_UndecodableCall(t) ==
    /\ SB_Call(t)
    /\ sb'[t].block = Undecodable

\* one RPC worker serving long polls and requests that fail a check, with the
\* chain-activation thread, the mempool and the clock
NextRequests ==
    \/ LongPoll_Step("t1")
    \/ GBT_InvalidRequest("t1")
    \/ GBT_UndecodableProposal("t1")
    \/ SB_UndecodableCall("t1")
    \/ SB_Return("t1")
    \/ \E b \in Blocks : UpdateTip(b)
    \/ MempoolAdd
    \/ Tick

SpecRequests == Init /\ [][NextRequests]_vars

(* ------------------------ informational calls -------------------------- *)
\* chainActive.Height(): -1 while the active chain is empty
ChainHeight == IF chainTip = NullIndex THEN -1 ELSE nHeightOf(chainTip)

RECURSIVE Pow2(_)
Pow2(n) == IF n <= 0 THEN 1 ELSE 2 * Pow2(n - 1)

Min(a, b) == IF a < b THEN a ELSE b
Max(a, b) == IF a > b THEN a ELSE b

\* nChainWork of the active chain's block at height h: the proofs of the block
\* and of all its ancestors
RECURSIVE nChainWork(_)
nChainWork(h) == IF h = 0 THEN blockProof[0] ELSE nChainWork(h - 1) + blockProof[h]

\* the integer part of the floating-point number nearest to n / d (ties to the
\* even significand), for n >= 0 and d > 0
FloatQuotient(n, d) ==
    IF n = 0 THEN 0
    ELSE LET e == CHOOSE x \in (-2 * MantissaBits)..16 :
                     IF x >= 0
                     THEN /\ Pow2(MantissaBits - 1) * d * Pow2(x) <= n
                          /\ n < Pow2(MantissaBits) * d * Pow2(x)
                     ELSE /\ Pow2(MantissaBits - 1) * d <= n * Pow2(-x)
                          /\ n * Pow2(-x) < Pow2(MantissaBits) * d
             num == IF e >= 0 THEN n ELSE n * Pow2(-e)
             den == IF e >= 0 THEN d * Pow2(e) ELSE d
             m0 == num \div den
             r == num % den
             m == IF 2 * r > den \/ (2 * r = den /\ m0 % 2 = 1) THEN m0 + 1 ELSE m0
         IN IF e >= 0 THEN m * Pow2(e) ELSE m \div Pow2(-e)

\* arith_uint256::getdouble: the floating-point number nearest to x
getdouble(x) == FloatQuotient(x, 1)

\* a quotient computed without the conversion to floating point
GetNetworkHashPS_Quotient_Exact(workDiff, timeDiff) == workDiff \div timeDiff

\* a quotient with its operands exchanged
GetNetworkHashPS_Quotient_Swapped(workDiff, timeDiff) ==
    IF workDiff = 0 THEN 0 ELSE timeDiff \div workDiff

\* mining.cpp:78-81  (int64_t)(workDiff.getdouble() / timeDiff)
GetNetworkHashPS_Quotient(workDiff, timeDiff) ==
    FloatQuotient(getdouble(workDiff), timeDiff)

\* mining.cpp:63-74  the walk over `n` predecessors of pb0; the genesis block
\* has no predecessor, and a walk that asks for its time ends at -1
RECURSIVE WalkBack(_, _, _, _)
WalkBack(n, pb0, minTime, maxTime) ==
    IF n = 0 THEN [pb0 |-> pb0, minTime |-> minTime, maxTime |-> maxTime]
    ELSE IF pb0 = 0 THEN [pb0 |-> -1, minTime |-> minTime, maxTime |-> maxTime]
    ELSE LET prev == pb0 - 1
             time == nTime[prev]
         IN WalkBack(n - 1, prev, Min(time, minTime), Max(time, maxTime))

\* a lookup that is taken as it comes
ClampLookup_None(lookup, height) == lookup

\* mining.cpp:59-61  a lookup larger than the chain becomes the chain length
ClampLookup(lookup, height) == IF lookup > height THEN height ELSE lookup

\* mining.cpp:69-70  pb0->GetBlockTime() on a null pb0: the process dies
NullDereference == [kind |-> "abort"]

\* mining.cpp:46-82  GetNetworkHashPS; blocks of the active chain are named by
\* their height, -1 is the null pointer
GetNetworkHashPS(lookup, height) ==
    LET pb == IF height >= 0 /\ height < ChainHeight THEN height ELSE ChainHeight
    IN IF pb = -1 \/ pb = 0 THEN 0
       ELSE LET window == IF lookup <= 0 THEN consensus.nPowAveragingWindow ELSE lookup
                n == ClampLookup(window, pb)
                w == WalkBack(n, pb, nTime[pb], nTime[pb])
            IN IF w.pb0 = -1 THEN NullDereference
               ELSE IF w.minTime = w.maxTime THEN 0
               ELSE GetNetworkHashPS_Quotient(nChainWork(pb) - nChainWork(w.pb0),
                                              w.maxTime - w.minTime)

\* the base subsidy at height h: the initial subsidy halved every interval
GetBlockSubsidy(h, c) == c.nSubsidy \div Pow2(h \div c.nSubsidyHalvingInterval)

\* Canopy is active from its activation height on
CanopyActive(h, c) == h >= c.canopyHeight

StreamActive(fs, h) == fs.defined /\ h >= fs.start /\ h < fs.end

\* ids of the funding streams active at h, in slot order
RECURSIVE ActiveFrom(_, _, _)
ActiveFrom(i, h, c) ==
    IF i \notin StreamIds THEN << >>
    ELSE (IF StreamActive(c.vFundingStreams[i], h) THEN <<i>> ELSE << >>)
         \o ActiveFrom(i + 1, h, c)
GetActiveFundingStreams(h, c) == IF CanopyActive(h, c) THEN ActiveFrom(0, h, c) ELSE << >>

\* FundingStreamInfo::Value: the stream's fraction of the subsidy, rounded down
StreamValue(fs, nBlockSubsidy) == (nBlockSubsidy * fs.num) \div fs.den

\* ValueFromAmount: sign, whole coins and the eight-digit fraction
ValueFromAmount(amount) ==
    LET n_abs == IF amount < 0 THEN -amount ELSE amount
    IN [sign |-> amount < 0, quotient |-> n_abs \div COIN, remainder |-> n_abs % COIN]

RECURSIVE SumSeq(_)
SumSeq(q) == IF q = << >> THEN 0 ELSE Head(q) + SumSeq(Tail(q))

\* mining.cpp:953-976  one entry of "fundingstreams": amounts of the idx-th
\* active stream, address of slot idx of vFundingStreams
FundingStreamEntry(idx, fsinfos, nBlockSubsidy, c) ==
    LET nStreamAmount == StreamValue(c.vFundingStreams[fsinfos[idx + 1]], nBlockSubsidy)
    IN [recipient |-> fsinfos[idx + 1], value |-> ValueFromAmount(nStreamAmount),
        valueZat |-> nStreamAmount, address |-> idx]

\* mining.cpp:983  the founders' reward is due at 0 < h <= the last such height
FoundersRewardDue(nHeight, c) == nHeight > 0 /\ nHeight <= c.lastFoundersRewardHeight

\* a miner reward that is the whole subsidy
MinerReward_Whole(nBlockSubsidy, deductions) == nBlockSubsidy

\* mining.cpp:943, 957, 985  the miner gets the subsidy less the other shares
MinerReward(nBlockSubsidy, deductions) == nBlockSubsidy - deductions

\* mining.cpp:938-988  getblocksubsidy at height nHeight
getblocksubsidy(nHeight, c) ==
    IF nHeight < 0
    THEN ErrorReply("RPC_INVALID_PARAMETER", "Block height out of range")
    ELSE LET nBlockSubsidy == GetBlockSubsidy(nHeight, c)
         IN IF CanopyActive(nHeight, c)
            THEN LET fsinfos == GetActiveFundingStreams(nHeight, c)
                     idxs == 0..(Len(fsinfos) - 1)
                     \* slots whose address cannot be resolved at nHeight
                     bad == {idx \in idxs : ~StreamActive(c.vFundingStreams[idx], nHeight)}
                     first == CHOOSE idx \in bad : \A j \in bad : idx <= j
                     entries == [i \in 1..Len(fsinfos) |->
                                    FundingStreamEntry(i - 1, fsinfos, nBlockSubsidy, c)]
                     streamSum == SumSeq([i \in 1..Len(fsinfos) |-> entries[i].valueZat])
                 IN IF bad # {}
                    THEN (IF ~c.vFundingStreams[first].defined
                          THEN ErrorReply("RPC_MISC_ERROR", "bad optional access")
                          ELSE [kind |-> "abort"])
                    ELSE [kind |-> "object",
                          miner |-> ValueFromAmount(MinerReward(nBlockSubsidy, streamSum)),
                          founders |-> ValueFromAmount(0),
                          hasFundingStreams |-> TRUE, fundingstreams |-> entries]
            ELSE LET nFoundersReward == IF FoundersRewardDue(nHeight, c)
                                        THEN nBlockSubsidy \div 5 ELSE 0
                 IN [kind |-> "object",
                     miner |-> ValueFromAmount(MinerReward(nBlockSubsidy, nFoundersReward)),
                     founders |-> ValueFromAmount(nFoundersReward),
                     hasFundingStreams |-> FALSE, fundingstreams |-> << >>]

\* an interpretation that lets every negative height wrap
InRange_NoLowerBound(nHeight, currentHeight) == nHeight <= currentHeight

\* blockchain.cpp:555  the test on the interpreted height
InRange(nHeight, currentHeight) == nHeight >= 0 /\ nHeight <= currentHeight

\* blockchain.cpp:550-559  interpretHeightArg
interpretHeightArg(nHeight, currentHeight) ==
    LET h == IF nHeight < 0 THEN nHeight + currentHeight + 1 ELSE nHeight
    IN IF ~InRange(h, currentHeight)
       THEN ErrorReply("RPC_INVALID_PARAMETER", "Block height out of range")
       ELSE [kind |-> "value", value |-> h]

\* validation states handed to the translation
ValidationStates == {ValidState} \cup InvalidStates \cup ErrorStates

\* mining.cpp:384-399  the translation applied to a validation state
Q_BIP22ValidationResult ==
    /\ query = NoQuery
    /\ \E state \in ValidationStates :
          query' = [fn |-> "BIP22ValidationResult", state |-> state,
                    reply |-> BIP22ValidationResult(state)]
    /\ UNCHANGED <<chainVars, mempoolVars, fRPCRunning, minerConfig, now, lockVars,
                   gbtStatics, pc, loc, ret, submitVars, streamVars, consensus, nTime, blockProof>>

\* mining.cpp:938-939  getblocksubsidy [height], under cs_main
Q_getblocksubsidy ==
    /\ query = NoQuery
    /\ cs_main = NoThread
    \* the height given, or chainActive.Height() when none is given
    /\ \E nHeight \in QueryHeights \cup {ChainHeight} :
          query' = [fn |-> "getblocksubsidy", nHeight |-> nHeight,
                    reply |-> getblocksubsidy(nHeight, consensus)]
    /\ UNCHANGED <<chainVars, mempoolVars, fRPCRunning, minerConfig, now, lockVars,
                   gbtStatics, pc, loc, ret, submitVars, streamVars, consensus, nTime, blockProof>>

\* blockchain.cpp:593  a height argument interpreted against the active chain
Q_interpretHeightArg ==
    /\ query = NoQuery
    /\ cs_main = NoThread
    /\ \E nHeight \in (-(MaxHeight + 3))..(MaxHeight + 2) :
          query' = [fn |-> "interpretHeightArg", nHeight |-> nHeight,
                    currentHeight |-> ChainHeight,
                    reply |-> interpretHeightArg(nHeight, ChainHeight)]
    /\ UNCHANGED <<chainVars, mempoolVars, fRPCRunning, minerConfig, now, lockVars,
                   gbtStatics, pc, loc, ret, submitVars, streamVars, consensus, nTime, blockProof>>

\* mining.cpp:116, 137  getnetworksolps / getnetworkhashps [blocks] [height]
Q_GetNetworkHashPS ==
    /\ query = NoQuery
    /\ cs_main = NoThread
    /\ \E lookup \in QueryHeights, height \in QueryHeights :
          query' = [fn |-> "GetNetworkHashPS", lookup |-> lookup, height |-> height,
                    reply |-> GetNetworkHashPS(lookup, height)]
    /\ UNCHANGED <<chainVars, mempoolVars, fRPCRunning, minerConfig, now, lockVars,
                   gbtStatics, pc, loc, ret, submitVars, streamVars, consensus, nTime, blockProof>>

\* the node with a chain of any length up to MaxHeight (or none yet), any
\* consensus configuration and any block times and proofs
InitQuery ==
    /\ chainTip \in {NullIndex} \cup {<<h, 0>> : h \in ChainHeights}
    /\ mapBlockIndex = [b \in Blocks |->
                           IF b[2] = 0 /\ b[1] <= ChainHeight THEN StValid ELSE StNone]
    /\ mempool = {}
    /\ nTransactionsUpdated = 0
    /\ fRPCRunning = TRUE
    /\ minerConfig = "transparent"
    /\ now = 0
    /\ cs_main = NoThread
    /\ csBestBlock = NoThread
    /\ nTransactionsUpdatedLast = 0
    /\ cached_next_cb_mtx = NoCb
    /\ cached_next_cb_height = 0
    /\ pindexPrev = NullIndex
    /\ nStart = 0
    /\ pblocktemplate = NoTemplate
    /\ lastBuiltTip = NullIndex
    /\ pc = [t \in RPCThreads |-> "idle"]
    /\ loc = [t \in RPCThreads |-> NoLocals]
    /\ ret = [t \in RPCThreads |-> NoResult]
    /\ sb = [t \in RPCThreads |-> NoSb]
    /\ acceptedBlocks = {}
    /\ \/ /\ consensus \in ConsensusParams
          /\ nTime = [h \in ChainHeights |-> 0]
          /\ blockProof = [h \in ChainHeights |-> 1]
       \/ /\ consensus \in {[DefaultConsensus EXCEPT !.nPowAveragingWindow = w] : w \in {1, 2}}
          /\ nTime \in [ChainHeights -> BlockTimes]
          /\ blockProof \in [ChainHeights -> BlockProofs]
    /\ query = NoQuery
    /\ NoStreams

\* what getnetworksolps reports for every lookup and height on the present
\* chain, with the chain work across each window
EstimateTable ==
    [lookup \in QueryHeights, height \in QueryHeights |->
        LET anchor == IF height >= 0 /\ height < ChainHeight THEN height ELSE ChainHeight
            window == IF lookup <= 0 THEN consensus.nPowAveragingWindow ELSE lookup
        IN [work |-> IF anchor > 0
                     THEN nChainWork(anchor) - nChainWork(anchor - ClampLookup(window, anchor))
                     ELSE 0,
            reply |-> GetNetworkHashPS(lookup, height)]]

\* the active chain is replaced by a chain of the same length whose blocks
\* carry the same times and other proofs; the estimates over the chain that is
\* replaced are kept for comparison
Q_ActivateBestChain ==
    /\ query = NoQuery
    /\ cs_main = NoThread
    /\ ChainHeight >= 1
    /\ \E proofs \in [ChainHeights -> BlockProofs] :
          /\ proofs # blockProof
          /\ proofs[0] = blockProof[0]
          /\ blockProof' = proofs
    /\ query' = [fn |-> "ActivateBestChain", before |-> EstimateTable]
    /\ UNCHANGED <<chainVars, mempoolVars, fRPCRunning, minerConfig, now, lockVars,
                   gbtStatics, pc, loc, ret, submitVars, streamVars, consensus, nTime>>

(* mining.cpp:677-718  the "transactions" array of a template *)
\* the number of mempool transactions a candidate block selects
MaxBlockTxs == 3
TxHashes == 1..MaxBlockTxs
\* the hash of the block's coinbase, the null prevout hash of its only input,
\* and the hash of a transaction confirmed in an earlier block
CoinbaseHash == 0
NullPrevoutHash == -1
ConfirmedHash == MaxBlockTxs + 1
CoinbaseTx == [hash |-> CoinbaseHash, vin |-> <<NullPrevoutHash>>, coinbase |-> TRUE]

\* the inputs a mempool transaction may carry: outputs of confirmed
\* transactions and of transactions that entered the mempool before it
PrevoutsOf(h) == {ConfirmedHash} \cup {p \in TxHashes : p < h}
Vins(h) == {<<p>> : p \in PrevoutsOf(h)}
              \cup {<<p, q>> : p \in PrevoutsOf(h), q \in PrevoutsOf(h)}
MempoolTxs ==
    UNION {{[hash |-> h, vin |-> v, coinbase |-> FALSE] : v \in Vins(h)} : h \in TxHashes}

Range(f) == {f[x] : x \in DOMAIN f}

\* pblock->vtx as the block builder leaves it: the coinbase first, then
\* distinct transactions, each after the transactions of the block it spends
ParentsFirst(vtx) ==
    \A k \in 1..Len(vtx) : \A n \in 1..Len(vtx[k].vin) :
        \A j \in 1..Len(vtx) : vtx[j].hash = vtx[k].vin[n] => j < k
TemplateBlocks ==
    {<<CoinbaseTx>> \o txs : txs \in
        {s \in UNION {[1..n -> MempoolTxs] : n \in 0..MaxBlockTxs} :
            /\ \A j, k \in DOMAIN s : s[j].hash = s[k].hash => j = k
            /\ ParentsFirst(s)}}

\* an index that counts the coinbase as 1
TxIndexAt_OneBased(i) == i + 1

\* mining.cpp:680-681  setTxIndex[txHash] = i++: the index of the i-th
\* transaction of the block visited (i counts from 0)
TxIndexAt(i) == i

\* mining.cpp:695-700  the indexes of the block's transactions an entry spends
DependsOf(vin, setTxIndex) ==
    LET known == SelectSeq(vin, LAMBDA p : p \in DOMAIN setTxIndex)
    IN [n \in 1..Len(known) |-> setTxIndex[known[n]]]

\* mining.cpp:677-718  one pass over pblock->vtx: the transaction is entered
\* in setTxIndex, then its entry is built and goes to txCoinbase or to the
\* end of transactions
RECURSIVE TemplateEntries(_, _, _, _)
TemplateEntries(vtx, i, setTxIndex, out) ==
    IF i >= Len(vtx) THEN out
    ELSE LET tx == vtx[i + 1]
             index == [h \in DOMAIN setTxIndex \cup {tx.hash} |->
                          IF h = tx.hash THEN TxIndexAt(i) ELSE setTxIndex[h]]
             entry == [hash |-> tx.hash, depends |-> DependsOf(tx.vin, index)]
         IN TemplateEntries(vtx, i + 1, index,
               IF tx.coinbase
               THEN [out EXCEPT !.coinbasetxn = entry]
               ELSE [out EXCEPT !.transactions = Append(@, entry)])

TemplateTransactions(vtx) ==
    TemplateEntries(vtx, 0, << >>,
                    [transactions |-> << >>,
                     coinbasetxn |-> [hash |-> NullPrevoutHash, depends |-> << >>]])

\* mining.cpp:677-718  the entries of a template over a candidate block
Q_TemplateTransactions ==
    /\ query = NoQuery
    /\ chainTip # NullIndex
    /\ \E vtx \in TemplateBlocks :
          query' = [fn |-> "TemplateTransactions", vtx |-> vtx,
                    reply |-> TemplateTransactions(vtx)]
    /\ UNCHANGED <<chainVars, mempoolVars, fRPCRunning, minerConfig, now, lockVars,
                   gbtStatics, pc, loc, ret, submitVars, streamVars, consensus, nTime, blockProof>>

\* the reply is handed to the caller
Q_Reply ==
    /\ query # NoQuery
    /\ query' = NoQuery
    /\ UNCHANGED <<chainVars, mempoolVars, fRPCRunning, minerConfig, now, lockVars,
                   gbtStatics, pc, loc, ret, submitVars, streamVars, consensus, nTime, blockProof>>

NextQuery ==
    \/ Q_BIP22ValidationResult
    \/ Q_getblocksubsidy
    \/ Q_interpretHeightArg
    \/ Q_GetNetworkHashPS
    \/ Q_ActivateBestChain
    \/ Q_Reply

SpecQuery == InitQuery /\ [][NextQuery]_vars

\* templates over candidate blocks, on a node with the default parameters
InitTemplate ==
    /\ InitQuery
    /\ consensus = DefaultConsensus
    /\ nTime = [h \in ChainHeights |-> 0]
    /\ blockProof = [h \in ChainHeights |-> 1]

NextTemplate ==
    \/ Q_TemplateTransactions
    \/ Q_Reply

SpecTemplate == InitTemplate /\ [][NextTemplate]_vars

(* ------------------------- serialization streams ----------------------- *)
\* streams_tests.cpp:15-71  CVectorWriter over a byte vector
MaxWrites == 2
MaxVectorSize == 3
MaxStartPos == 3
\* byte values; vch.resize(n, 0) fills with 0
ByteValues == 0..2
\* the values the test serializes: an unsigned char, or an array of bytes
UChar(b) == [kind |-> "uchar", v |-> b]
ByteArray(a) == [kind |-> "array", v |-> a]
StreamValues == {UChar(1), UChar(2), ByteArray(<<1, 2>>)}
ValueLists == {<<v>> : v \in StreamValues} \cup {<<v, w>> : v \in StreamValues, w \in StreamValues}

\* an unsigned char serializes to its one byte, an array of bytes to its bytes
SerializeValue(value) == IF value.kind = "uchar" THEN <<value.v>> ELSE value.v

RECURSIVE SerializeMany(_)
SerializeMany(values) ==
    IF values = << >> THEN << >>
    ELSE SerializeValue(Head(values)) \o SerializeMany(Tail(values))

\* vch.resize(n, fill)
Resize(v, n, fill) == [i \in 1..n |-> IF i <= Len(v) THEN v[i] ELSE fill]

\* a constructor that always sets the size to the start position
VectorWriterInit_Truncating(vchData, nPos) == Resize(vchData, nPos, 0)

\* CVectorWriter::CVectorWriter: a start position past the end grows the
\* vector to it
VectorWriterInit(vchData, nPos) ==
    IF nPos > Len(vchData) THEN Resize(vchData, nPos, 0) ELSE vchData

\* a write that always adds its bytes at the end
VectorWrite_Append(vchData, nPos, pch) == [vchData |-> vchData \o pch, nPos |-> nPos + Len(pch)]

\* CVectorWriter::write: overwrite what is there from nPos on, append the rest
VectorWrite(vchData, nPos, pch) ==
    LET nSize == Len(pch)
        nOverwrite == Min(nSize, Len(vchData) - nPos)
    IN [vchData |-> [i \in 1..Max(Len(vchData), nPos + nSize) |->
                        IF i > nPos /\ i <= nPos + nOverwrite THEN pch[i - nPos]
                        ELSE IF i <= Len(vchData) THEN vchData[i]
                        ELSE pch[i - Len(vchData) + nOverwrite]],
        nPos |-> nPos + nSize]

\* one write call per serialized value
RECURSIVE WriteValues(_, _, _)
WriteValues(vchData, nPos, values) ==
    IF values = << >> THEN vchData
    ELSE LET w == VectorWrite(vchData, nPos, SerializeValue(Head(values)))
         IN WriteValues(w.vchData, w.nPos, Tail(values))

\* CVectorWriter(SER_NETWORK, INIT_PROTO_VERSION, vch, nPos, values...)
CVectorWriter(vchData, nPos, values) ==
    WriteValues(VectorWriterInit(vchData, nPos), nPos, values)

\* streams_tests.cpp:26-69  one CVectorWriter statement of the test
VW_Write ==
    /\ bf = NoFile
    /\ streamOp.op \in {"none", "CVectorWriter"}
    /\ streamOp.op = "CVectorWriter" => streamOp.n < MaxWrites
    /\ \E nPos \in 0..MaxStartPos, values \in ValueLists :
          /\ vch' = CVectorWriter(vch, nPos, values)
          /\ streamOp' = [op |-> "CVectorWriter",
                          n |-> IF streamOp.op = "none" THEN 1 ELSE streamOp.n + 1,
                          nPos |-> nPos, values |-> values, before |-> vch,
                          prev |-> IF streamOp.op = "none" THEN NoStreamOp
                                   ELSE [op |-> "CVectorWriter", nPos |-> streamOp.nPos,
                                         values |-> streamOp.values,
                                         before |-> streamOp.before]]
    /\ UNCHANGED <<chainVars, mempoolVars, fRPCRunning, minerConfig, now, lockVars,
                   gbtStatics, pc, loc, ret, submitVars, consensus, nTime, blockProof,
                   query, bf>>

\* streams_tests.cpp:30-65  vch.clear(), then vch.resize(n, fill)
VW_ClearResize ==
    /\ bf = NoFile
    /\ streamOp.op = "CVectorWriter"
    /\ \E n \in 0..MaxVectorSize, fill \in ByteValues :
          vch' = Resize(<< >>, n, fill)
    /\ streamOp' = NoStreamOp
    /\ UNCHANGED <<chainVars, mempoolVars, fRPCRunning, minerConfig, now, lockVars,
                   gbtStatics, pc, loc, ret, submitVars, consensus, nTime, blockProof,
                   query, bf>>

\* every variable outside the streams, on a node at rest
IdleNode ==
    /\ chainTip = Genesis
    /\ mapBlockIndex = [b \in Blocks |-> IF b = Genesis THEN StValid ELSE StNone]
    /\ mempool = {}
    /\ nTransactionsUpdated = 0
    /\ fRPCRunning = TRUE
    /\ minerConfig = "transparent"
    /\ now = 0
    /\ cs_main = NoThread
    /\ csBestBlock = NoThread
    /\ nTransactionsUpdatedLast = 0
    /\ cached_next_cb_mtx = NoCb
    /\ cached_next_cb_height = 0
    /\ pindexPrev = NullIndex
    /\ nStart = 0
    /\ pblocktemplate = NoTemplate
    /\ lastBuiltTip = NullIndex
    /\ pc = [t \in RPCThreads |-> "idle"]
    /\ loc = [t \in RPCThreads |-> NoLocals]
    /\ ret = [t \in RPCThreads |-> NoResult]
    /\ sb = [t \in RPCThreads |-> NoSb]
    /\ acceptedBlocks = {}
    /\ consensus = DefaultConsensus
    /\ nTime = [h \in ChainHeights |-> 0]
    /\ blockProof = [h \in ChainHeights |-> 1]
    /\ query = NoQuery

\* streams_tests.cpp:20  std::vector<unsigned char> vch
InitVectorWriter ==
    /\ IdleNode
    /\ vch = << >>
    /\ bf = NoFile
    /\ streamOp = NoStreamOp

NextVectorWriter ==
    \/ VW_Write
    \/ VW_ClearResize

SpecVectorWriter == InitVectorWriter /\ [][NextVectorWriter]_vars

\* streams_tests.cpp:73-181  CBufferedFile over a file
MaxFileSize == 5
MaxBufSize == 3
MaxRead == 3
\* how far past maxPos the test asks SetPos to go (GetRandInt(maxPos + 4))
SetPosReach == 3
\* nReadLimit of a new CBufferedFile, (uint64_t)(-1)
NoReadLimit == 1000000
\* the bytes a file holds; a new buffer holds none of them
FileBytes == 1..2
Files == UNION {[1..n -> FileBytes] : n \in 0..MaxFileSize}

\* CBufferedFile::CBufferedFile(fileIn, nBufSize, nRewindIn, ...), with the
\* test's currentPos and maxPos
CBufferedFile(file, nBufSize, nRewindIn) ==
    [open |-> TRUE, file |-> file, feof |-> FALSE,
     nSrcPos |-> 0, nReadPos |-> 0, nReadLimit |-> NoReadLimit, nRewind |-> nRewindIn,
     vchBuf |-> [i \in 1..nBufSize |-> 0],
     currentPos |-> 0, maxPos |-> 0]

\* an index that stops at the end of the buffer
BufferIndex_NoWrap(b, n) == Min(n, Len(b.vchBuf) - 1)

\* nPos % vchBuf.size(): where the byte at stream offset n sits in the buffer
BufferIndex(b, n) == n % Len(b.vchBuf)

\* CBufferedFile::Fill: read from the file up to the end of the buffer, keeping
\* nRewind bytes behind the read position; throws when the file gives nothing
Fill(b) ==
    LET pos == BufferIndex(b, b.nSrcPos)
        nAvail == Len(b.vchBuf) - (b.nSrcPos - b.nReadPos) - b.nRewind
        readNow == Min(Len(b.vchBuf) - pos, nAvail)
        nBytes == Min(readNow, Len(b.file) - b.nSrcPos)
    IN IF readNow = 0 THEN [bf |-> b, filled |-> FALSE, threw |-> FALSE]
       ELSE IF nBytes = 0
       THEN [bf |-> [b EXCEPT !.feof = TRUE], filled |-> FALSE, threw |-> TRUE]
       ELSE [bf |-> [b EXCEPT !.vchBuf = [i \in 1..Len(b.vchBuf) |->
                                            IF i > pos /\ i <= pos + nBytes
                                            THEN b.file[b.nSrcPos + (i - pos)]
                                            ELSE b.vchBuf[i]],
                              !.nSrcPos = @ + nBytes,
                              !.feof = nBytes < readNow],
             filled |-> TRUE, threw |-> FALSE]

\* if (nReadPos == nSrcPos) Fill();
FillIfDrained(b) ==
    IF b.nReadPos = b.nSrcPos THEN Fill(b) ELSE [bf |-> b, filled |-> TRUE, threw |-> FALSE]

\* CBufferedFile::eof, GetPos
eof(b) == b.nReadPos = b.nSrcPos /\ b.feof
GetPos(b) == b.nReadPos

\* CBufferedFile::read, the copy loop
RECURSIVE ReadLoop(_, _, _)
ReadLoop(b, nSize, out) ==
    IF nSize = 0 THEN [bf |-> b, out |-> out, threw |-> "none"]
    ELSE LET f == FillIfDrained(b)
             c == f.bf
             pos == BufferIndex(c, c.nReadPos)
             nNow == Min(Min(nSize, Len(c.vchBuf) - pos), c.nSrcPos - c.nReadPos)
         IN IF f.threw THEN [bf |-> c, out |-> out, threw |-> "end of file"]
            ELSE IF nNow <= 0 THEN [bf |-> c, out |-> out, threw |-> "no progress"]
            ELSE ReadLoop([c EXCEPT !.nReadPos = @ + nNow], nSize - nNow,
                          out \o [i \in 1..nNow |-> c.vchBuf[pos + i]])

\* CBufferedFile::read
read(b, nSize) ==
    IF nSize + b.nReadPos > b.nReadLimit
    THEN [bf |-> b, out |-> << >>, threw |-> "Read attempted past buffer limit"]
    ELSE ReadLoop(b, nSize, << >>)

\* CBufferedFile::SetLimit
SetLimit(b, nPos) ==
    IF nPos < b.nReadPos THEN [bf |-> b, okay |-> FALSE]
    ELSE [bf |-> [b EXCEPT !.nReadLimit = nPos], okay |-> TRUE]

\* a rewind that only goes back nRewind bytes behind what was read from the file
SetPos_RewindOnly(b, nPos) ==
    IF nPos + b.nRewind < b.nSrcPos
    THEN [bf |-> [b EXCEPT !.nReadPos = b.nSrcPos - b.nRewind], okay |-> FALSE]
    ELSE IF nPos > b.nSrcPos
    THEN [bf |-> [b EXCEPT !.nReadPos = b.nSrcPos], okay |-> FALSE]
    ELSE [bf |-> [b EXCEPT !.nReadPos = nPos], okay |-> TRUE]

\* CBufferedFile::SetPos: as far back as the buffer holds, as far forward as
\* was read from the file
SetPos(b, nPos) ==
    IF nPos + Len(b.vchBuf) < b.nSrcPos
    THEN [bf |-> [b EXCEPT !.nReadPos = b.nSrcPos - Len(b.vchBuf)], okay |-> FALSE]
    ELSE IF nPos > b.nSrcPos
    THEN [bf |-> [b EXCEPT !.nReadPos = b.nSrcPos], okay |-> FALSE]
    ELSE [bf |-> [b EXCEPT !.nReadPos = nPos], okay |-> TRUE]

\* CBufferedFile::FindByte
RECURSIVE FindByte(_, _)
FindByte(b, ch) ==
    LET f == FillIfDrained(b)
        c == f.bf
    IN IF f.threw THEN [bf |-> c, threw |-> "end of file"]
       ELSE IF c.nReadPos = c.nSrcPos THEN [bf |-> c, threw |-> "no progress"]
       ELSE IF c.vchBuf[BufferIndex(c, c.nReadPos) + 1] = ch THEN [bf |-> c, threw |-> "none"]
       ELSE FindByte([c EXCEPT !.nReadPos = @ + 1], ch)

\* the offsets at or after from that hold ch
OffsetsHolding(file, from, ch) == {n \in from..(Len(file) - 1) : file[n + 1] = ch}
FirstOffset(file, from, ch) ==
    CHOOSE n \in OffsetsHolding(file, from, ch) :
        \A m \in OffsetsHolding(file, from, ch) : n <= m

\* streams_tests.cpp:176-177  maxPos follows currentPos
Reached(b, pos) == [b EXCEPT !.currentPos = pos, !.maxPos = Max(@, pos)]

\* streams_tests.cpp:92-97  the file is not yet read to its end
BF_MoreToRead == bf.open /\ bf.currentPos < Len(bf.file)

\* streams_tests.cpp:104-139  an object of nSize bytes is read
BF_Read ==
    /\ BF_MoreToRead
    /\ \E nSize \in 1..MaxRead :
          /\ bf.currentPos + nSize <= Len(bf.file)
          /\ LET r == read(SetLimit(bf, bf.currentPos + nSize).bf, nSize)
             IN /\ bf' = Reached(r.bf, bf.currentPos + nSize)
                /\ streamOp' = [op |-> "read", nSize |-> nSize, pos |-> bf.currentPos,
                                out |-> r.out, threw |-> r.threw]
    /\ UNCHANGED <<chainVars, mempoolVars, fRPCRunning, minerConfig, now, lockVars,
                   gbtStatics, pc, loc, ret, submitVars, consensus, nTime, blockProof,
                   query, vch>>

\* streams_tests.cpp:140-156  a byte at or ahead of the position is looked
\* for, then read
BF_FindByte ==
    /\ BF_MoreToRead
    /\ \E ch \in FileBytes :
          /\ OffsetsHolding(bf.file, bf.currentPos, ch) # {}
          /\ LET find == FirstOffset(bf.file, bf.currentPos, ch)
                 f == FindByte(bf, ch)
                 r == read(SetLimit(f.bf, find + 1).bf, 1)
             IN /\ bf' = Reached(r.bf, find + 1)
                /\ streamOp' = [op |-> "FindByte", ch |-> ch, pos |-> bf.currentPos,
                                find |-> find, found |-> GetPos(f.bf),
                                out |-> r.out,
                                threw |-> IF f.threw # "none" THEN f.threw ELSE r.threw]
    /\ UNCHANGED <<chainVars, mempoolVars, fRPCRunning, minerConfig, now, lockVars,
                   gbtStatics, pc, loc, ret, submitVars, consensus, nTime, blockProof,
                   query, vch>>

\* streams_tests.cpp:157-174  a position up to a few bytes past maxPos is asked for
BF_SetPos ==
    /\ BF_MoreToRead
    /\ \E requestPos \in 0..(bf.maxPos + SetPosReach) :
          LET r == SetPos(bf, requestPos)
          IN /\ bf' = Reached(r.bf, GetPos(r.bf))
             /\ streamOp' = [op |-> "SetPos", requestPos |-> requestPos,
                             pos |-> bf.currentPos, maxPos |-> bf.maxPos,
                             okay |-> r.okay]
    /\ UNCHANGED <<chainVars, mempoolVars, fRPCRunning, minerConfig, now, lockVars,
                   gbtStatics, pc, loc, ret, submitVars, consensus, nTime, blockProof,
                   query, vch>>

\* streams_tests.cpp:79-90  a file, a buffer size and a rewind size below it
InitBufferedFile ==
    /\ IdleNode
    /\ vch = << >>
    /\ \E file \in Files, bufSize \in 1..MaxBufSize :
          \E rewindSize \in 0..(bufSize - 1) :
             bf = CBufferedFile(file, bufSize, rewindSize)
    /\ streamOp = NoStreamOp

NextBufferedFile ==
    \/ BF_Read
    \/ BF_FindByte
    \/ BF_SetPos

SpecBufferedFile == InitBufferedFile /\ [][NextBufferedFile]_vars

(* ------------------------------ properties ----------------------------- *)
Returning(t) == pc[t] = "return"
ReturnsTemplate(t) == Returning(t) /\ ret[t].reply.kind = "template"
ShutdownError == ErrorReply("RPC_CLIENT_NOT_CONNECTED", "Shutting down")

\* C1: whenever getblocktemplate invokes the builder with a precomputed
\* coinbase, that coinbase was built for the height of the template being
\* built (active tip height + 1 at build time).
C1_CachedCoinbaseMatchesHeight ==
    \A t \in RPCThreads :
        (Returning(t) /\ ret[t].build.invoked /\ ret[t].build.cb.present)
            => ret[t].build.cb.height = ret[t].build.height

C3_TemplateDescribesActiveTip ==
    \A t \in RPCThreads :
        ReturnsTemplate(t)
            => /\ ret[t].reply.height = nHeightOf(chainTip) + 1
               /\ ret[t].reply.previousblockhash = GetBlockHash(chainTip)
               /\ ret[t].reply.longpollid.hash = GetBlockHash(chainTip)

\* a call returns a template after the tip it watched was replaced during
\* its wait by a tip of another height
C3_Witness ==
    \E t \in RPCThreads :
        /\ ReturnsTemplate(t)
        /\ loc[t].waited
        /\ loc[t].lpval.hash \in Blocks
        /\ loc[t].lpval.hash # GetBlockHash(chainTip)
        /\ loc[t].nHeight # nHeightOf(chainTip)

\* C4: a long-poll caller does not hold cs_main while it precomputes the
\* coinbase or is in the timed wait (until it re-enters the critical section),
\* and holds it whenever it reads the tip and on every exit from the wait loop.
C4_ChainLockAroundWait ==
    \A t \in RPCThreads :
        /\ InLongPollWait(t) => cs_main # t
        /\ pc[t] \in {"loop_cond", "recheck", "after_loop", "update", "return"}
              => cs_main = t

\* the tip was replaced while the caller waited, and the caller reads the new
\* tip under cs_main
C4_Witness ==
    \E t \in RPCThreads :
        /\ pc[t] = "recheck"
        /\ loc[t].waited
        /\ cs_main = t
        /\ GetBlockHash(chainTip) # loc[t].hashWatchedChain

\* the step of a call that decides about the rebuild
UpdateStep(t) == pc[t] = "update" /\ pc'[t] = "return"

\* C5 (as stated): the builder is invoked iff a longpollid was supplied, or the
\* tip differs from the tip of the last successful build, or the mempool
\* counter differs from the remembered one and the last build is more than 5
\* seconds old; otherwise the previous template is returned.
C5_RebuildIffAsStated ==
    [][\A t \in RPCThreads :
          UpdateStep(t) =>
             LET should == \/ loc[t].lpval.kind # "null"
                           \/ chainTip # lastBuiltTip
                           \/ /\ nTransactionsUpdated # nTransactionsUpdatedLast
                              /\ now - nStart > RebuildSeconds
             IN /\ ret'[t].build.invoked <=> should
                /\ ~should => /\ pblocktemplate' = pblocktemplate
                              /\ ret'[t].reply.kind = "template"]_vars

\* C5 (amended): the rebuild branch is taken iff a longpollid was supplied, or
\* the tip differs from pindexPrev (null after a rebuild that failed), or the
\* mempool counter differs from the remembered one and the last rebuild is
\* more than 5 seconds old; in that branch the builder is invoked iff the miner
\* address is valid; otherwise the previous template is returned unchanged.
C5_RebuildDecision ==
    [][\A t \in RPCThreads :
          UpdateStep(t) =>
             LET should == \/ loc[t].lpval.kind # "null"
                           \/ chainTip # pindexPrev
                           \/ /\ nTransactionsUpdated # nTransactionsUpdatedLast
                              /\ now - nStart > RebuildSeconds
             IN /\ ret'[t].build.rebuilt <=> should
                /\ ret'[t].build.invoked <=>
                      (should /\ IsValidMinerAddress(loc[t].minerAddress))
                /\ ~should => /\ pblocktemplate' = pblocktemplate
                              /\ pblocktemplate.live
                              /\ pindexPrev' = pindexPrev
                              /\ nTransactionsUpdatedLast' = nTransactionsUpdatedLast
                              /\ nStart' = nStart
                              /\ ret'[t].reply =
                                    TemplateReply(pblocktemplate, pindexPrev, chainTip,
                                                  nTransactionsUpdatedLast)]_vars

\* a call returns the previous template although the mempool counter moved:
\* the template is not older than 5 seconds
C5_Witness ==
    \E t \in RPCThreads :
        /\ ReturnsTemplate(t)
        /\ ~ret[t].build.rebuilt
        /\ nTransactionsUpdated # nTransactionsUpdatedLast

\* C6: once the running flag is false the wait loop is left, the call fails
\* with ClientNotConnected("Shutting down") without invoking the builder and
\* without changing the last tip, the last template or the remembered mempool
\* counter; that error is raised only when the flag is false.
C6_ShutdownAbortsWait ==
    [][\A t \in RPCThreads :
          /\ (pc[t] = "loop_cond" /\ ~fRPCRunning /\ pc'[t] # pc[t])
                => pc'[t] = "after_loop"
          /\ (pc[t] = "after_loop" /\ ~fRPCRunning /\ pc'[t] # pc[t])
                => /\ Returning(t)'
                   /\ ret'[t].reply = ShutdownError
                   /\ ~ret'[t].build.invoked
                   /\ ~ret'[t].build.rebuilt
                   /\ UNCHANGED <<pindexPrev, pblocktemplate, nTransactionsUpdatedLast,
                                  nStart>>
          /\ (~Returning(t) /\ Returning(t)' /\ ret'[t].reply.kind = "error"
                 /\ ret'[t].reply.code = "RPC_CLIENT_NOT_CONNECTED")
                => ~fRPCRunning /\ pc[t] = "after_loop"]_vars

\* a call that was in the timed wait fails with the shutdown error
C6_Witness ==
    \E t \in RPCThreads :
        /\ Returning(t)
        /\ loc[t].waited
        /\ ~fRPCRunning
        /\ ret[t].reply = ShutdownError

SubmitReturns(t) == pc[t] = "sb_return" /\ sb[t].mode = "submit"

\* C7: for a block that was neither fully validated nor failed in the index
\* before the call, the verdict is the observer's state when ProcessNewBlock
\* accepted and the observer fired; "inconclusive", or "duplicate-inconclusive"
\* for a header-known block, when it accepted and the observer did not fire;
\* and the translation of ProcessNewBlock's own state in all remaining cases.
C7_VerdictAsStated ==
    \A t \in RPCThreads :
        (SubmitReturns(t) /\ sb[t].called)
            => ret[t].reply =
                  IF sb[t].fAccepted /\ sb[t].found
                  THEN BIP22ValidationResult(sb[t].scState)
                  ELSE IF sb[t].fAccepted
                  THEN Verdict(IF sb[t].fBlockPresent THEN "duplicate-inconclusive"
                               ELSE "inconclusive")
                  ELSE BIP22ValidationResult(sb[t].state)

\* C8: for a block already in the index, submitblock and proposal mode return
\* "duplicate" when the entry is valid to script level and "duplicate-invalid"
\* when it is marked failed, without invoking the validator and without
\* changing the chain state; for an entry in neither state proposal mode
\* returns "duplicate-inconclusive" and submitblock goes on to validation.
C8_IndexedBlockVerdict ==
    [][\A t \in RPCThreads :
          (/\ pc[t] = "idle"
           /\ sb'[t].mode \in {"submit", "proposal"}
           /\ DecodeHexBlk(sb'[t].block)
           /\ mapBlockIndex[sb'[t].block].known)
          => LET st == mapBlockIndex[sb'[t].block]
                 Answered(v) == /\ pc'[t] = "sb_return"
                                /\ ret'[t].reply = Verdict(v)
                                /\ ~sb'[t].called
                                /\ UNCHANGED chainVars
             IN IF IsValid(st) THEN Answered("duplicate")
                ELSE IF st.failed THEN Answered("duplicate-invalid")
                ELSE IF sb'[t].mode = "proposal" THEN Answered("duplicate-inconclusive")
                ELSE /\ pc'[t] = "sb_checked"
                     /\ sb'[t].fBlockPresent
                     /\ UNCHANGED chainVars]_vars

\* submitblock answers "duplicate-invalid" for a block that was validated to
\* script level and then marked failed, without invoking the validator
C8_Witness ==
    \E t \in RPCThreads :
        /\ SubmitReturns(t)
        /\ ~sb[t].called
        /\ ret[t].reply = Verdict("duplicate-invalid")
        /\ mapBlockIndex[sb[t].block].scripts

\* C9 (as stated): once a submitblock call ended with the validator accepting
\* the block, a later submitblock call with the same bytes returns "duplicate".
C9_ResubmitIsDuplicate ==
    \A t \in RPCThreads :
        (SubmitReturns(t) /\ sb[t].block \in acceptedBlocks)
            => ret[t].reply = Verdict("duplicate")

\* C9 (amended): once a submitblock call ended with the validator accepting
\* the block, a later submitblock call with the same bytes returns one of the
\* duplicate verdicts: "duplicate" or "duplicate-invalid" from the index test,
\* or, for a block stored without full validation, "duplicate-inconclusive"
\* when the validator accepts it again without the observer firing and
\* "duplicate" otherwise.
C9_ResubmitIsDuplicateVerdict ==
    \A t \in RPCThreads :
        (SubmitReturns(t) /\ sb[t].block \in acceptedBlocks)
            => /\ ret[t].reply.kind = "verdict"
               /\ ret[t].reply.value \in DuplicateVerdicts
               /\ ret[t].reply.value = "duplicate-invalid" => ~sb[t].called
               /\ ret[t].reply.value = "duplicate-inconclusive"
                     => sb[t].called /\ sb[t].fAccepted /\ ~sb[t].found

\* a block accepted by an earlier call is submitted again and the answer is
\* "duplicate-inconclusive"
C9_Witness ==
    \E t \in RPCThreads :
        /\ SubmitReturns(t)
        /\ sb[t].block \in acceptedBlocks
        /\ ret[t].reply = Verdict("duplicate-inconclusive")

\* C10: whenever submitblock returns a verdict other than the duplicate
\* verdicts, the validator was invoked during the call and either accepted the
\* block into the index or rejected it as invalid.
C10_VerdictMeansValidated ==
    \A t \in RPCThreads :
        (/\ SubmitReturns(t)
         /\ ret[t].reply.kind = "verdict"
         /\ ret[t].reply.value \notin DuplicateVerdicts)
        => /\ sb[t].called
           /\ \/ sb[t].fAccepted /\ mapBlockIndex[sb[t].block].known
              \/ ~sb[t].fAccepted /\ sb[t].state.mode = "invalid"

\* submitblock returns null for a block the validator connected as the tip
C10_Witness ==
    \E t \in RPCThreads :
        /\ SubmitReturns(t)
        /\ ret[t].reply = Verdict("null")
        /\ sb[t].fAccepted
        /\ sb[t].found
        /\ chainTip = sb[t].block

ProposalStep(t) == pc[t] = "idle" /\ sb'[t].mode = "proposal"
ProposalReturns(t) == pc[t] = "sb_return" /\ sb[t].mode = "proposal"
CoordinatorState == <<pindexPrev, pblocktemplate, nTransactionsUpdatedLast, nStart,
                      cached_next_cb_mtx, cached_next_cb_height>>

\* C11 (as stated): a proposal of a block that is valid on top of the current
\* tip returns null, and no proposal call changes the tip, the block index or
\* the coordinator's state.
C11_ValidProposalIsNull ==
    [][\A t \in RPCThreads :
          ProposalStep(t) =>
             /\ UNCHANGED <<chainVars, CoordinatorState>>
             /\ (/\ DecodeHexBlk(sb'[t].block)
                 /\ GetBlockHash(pprev(sb'[t].block)) = GetBlockHash(chainTip)
                 /\ sb'[t].wouldBe = ValidState)
                => ret'[t].reply = Verdict("null")]_vars

\* C11 (amended): a proposal of a block that is not yet in the block index and
\* is valid on top of the current tip returns null, and no proposal call
\* changes the tip, the block index or the coordinator's state.
C11_NewValidProposalIsNull ==
    [][\A t \in RPCThreads :
          ProposalStep(t) =>
             /\ UNCHANGED <<chainVars, CoordinatorState>>
             /\ pc'[t] = "sb_return"
             /\ (/\ DecodeHexBlk(sb'[t].block)
                 /\ ~mapBlockIndex[sb'[t].block].known
                 /\ GetBlockHash(pprev(sb'[t].block)) = GetBlockHash(chainTip)
                 /\ sb'[t].wouldBe = ValidState)
                => ret'[t].reply = Verdict("null") /\ sb'[t].called]_vars

\* a proposal for a new block on the tip was validated and answered null while
\* the tip stayed where it was
C11_Witness ==
    \E t \in RPCThreads :
        /\ ProposalReturns(t)
        /\ sb[t].called
        /\ ret[t].reply = Verdict("null")
        /\ ~mapBlockIndex[sb[t].block].known
        /\ chainTip = pprev(sb[t].block)

\* C12: in proposal mode the checks run in the order decode, index membership,
\* previous-block hash, validity test: an indexed block gets a duplicate
\* verdict whatever its previous block, a block that is not indexed and not
\* built on the tip gets "inconclusive-not-best-prevblk" without
\* TestBlockValidity being invoked, and only the remaining blocks are tested.
C12_ProposalCheckOrder ==
    [][\A t \in RPCThreads :
          ProposalStep(t) =>
             LET b == sb'[t].block
             IN IF ~DecodeHexBlk(b)
                THEN ret'[t].reply.kind = "error" /\ ~sb'[t].called
                ELSE IF mapBlockIndex[b].known
                THEN /\ ret'[t].reply.kind = "verdict"
                     /\ ret'[t].reply.value \in DuplicateVerdicts
                     /\ ~sb'[t].called
                ELSE IF GetBlockHash(pprev(b)) # GetBlockHash(chainTip)
                THEN /\ ret'[t].reply = Verdict("inconclusive-not-best-prevblk")
                     /\ ~sb'[t].called
                ELSE /\ sb'[t].called
                     /\ ret'[t].reply = BIP22ValidationResult(sb'[t].state)]_vars

\* a proposal of an indexed block that is not built on the tip got a duplicate
\* verdict
C12_Witness ==
    \E t \in RPCThreads :
        /\ ProposalReturns(t)
        /\ ret[t].reply.kind = "verdict"
        /\ ret[t].reply.value \in DuplicateVerdicts
        /\ sb[t].block # Genesis
        /\ pprev(sb[t].block) # chainTip
        /\ nHeightOf(sb[t].block) > nHeightOf(chainTip)

\* C13: the validation-result translation maps each validator state to one
\* outcome: valid gives null; an internal error is raised as a verify error
\* carrying the reject reason; invalid is returned as "rejected" when the
\* reason is empty and as the reason otherwise; anything else gives "valid?".
C13_TranslationAsStated ==
    query.fn = "BIP22ValidationResult" =>
       LET st == query.state
           r == query.reply
       IN /\ st.mode = "valid" => r = Verdict("null")
          /\ st.mode = "error" =>
                r.kind = "error" /\ r.code = "RPC_VERIFY_ERROR" /\ r.message = st.reason
          /\ st.mode = "invalid" =>
                /\ r.kind = "verdict"
                /\ r.value = (IF st.reason = "" THEN "rejected" ELSE st.reason)
          /\ st.mode \notin {"valid", "error", "invalid"} => r = Verdict("valid?")

\* an invalid state without a reason was translated to the value "rejected"
C13_Witness ==
    /\ query.fn = "BIP22ValidationResult"
    /\ query.state.mode = "invalid"
    /\ query.state.reason = ""
    /\ query.reply = Verdict("rejected")

\* C14 (as stated): the longpollid of every template reply is the 64-hex
\* hash of the active tip followed by the decimal value of the mempool
\* updated-counter sampled when the returned template was built.
C14_LongPollIdIsSampledCounter ==
    \A t \in RPCThreads :
        ReturnsTemplate(t)
            => ret[t].reply.longpollid
                  = StrLp(GetBlockHash(chainTip), pblocktemplate.built.txUpdated)

\* C14 (amended): the longpollid of every template reply is the hash of the
\* active tip followed by the mempool updated-counter sampled when the returned
\* template was built, or by 0 when that template was built from the
\* precomputed coinbase while the mempool was not empty.
C14_LongPollIdAsBuilt ==
    \A t \in RPCThreads :
        ReturnsTemplate(t)
            => ret[t].reply.longpollid
                  = StrLp(GetBlockHash(chainTip),
                          IF pblocktemplate.built.precomputedOverPool
                          THEN 0 ELSE pblocktemplate.built.txUpdated)

\* a template built from the precomputed coinbase over a non-empty mempool is
\* returned with count 0 although the counter sampled at the build was not 0
C14_Witness ==
    \E t \in RPCThreads :
        /\ ReturnsTemplate(t)
        /\ pblocktemplate.built.precomputedOverPool
        /\ pblocktemplate.built.txUpdated > 0
        /\ ret[t].reply.longpollid.count = 0

Unparseable(lp) == lp.kind = "nonstr" \/ (lp.kind = "str" /\ lp.form # "hex64")

\* C15: a longpollid that is not 64 hex characters followed by a decimal
\* count (a non-string value, a string that is too short or not hex) makes the
\* call wait on the current tip with the coordinator's current transaction
\* count, and the call does not fail.
C15_UnparseableWaitsOnTip ==
    [][\A t \in RPCThreads :
          (pc[t] = "entry" /\ pc'[t] # "entry" /\ Unparseable(loc[t].lpval))
             => /\ pc'[t] = "lock_best"
                /\ loc'[t].hashWatchedChain = GetBlockHash(chainTip)
                /\ loc'[t].nTransactionsUpdatedLastLP = nTransactionsUpdatedLast]_vars

\* C16 (as stated, first part): with a shielded miner address a call made at
\* tip height T that waited and returns a template of height T+1 leaves a
\* cached coinbase recorded for height T+3.
C16_CachedForThirdHeight ==
    \A t \in RPCThreads :
        (/\ ReturnsTemplate(t)
         /\ loc[t].waited
         /\ IsShieldedMinerAddress(loc[t].minerAddress)
         /\ ret[t].reply.height = loc[t].nHeight + 1)
            => /\ cached_next_cb_mtx.present
               /\ cached_next_cb_height = loc[t].nHeight + 3

\* C16 (amended): with a shielded miner address a call that waits at tip
\* height T while no cached coinbase is stored records one for height T+2,
\* and a call that took the cached coinbase at its entry at tip height T and
\* whose wait ended with the tip at height T+1 invokes the builder with a
\* coinbase precomputed for T+2, the height of the template.
C16_CachedForSecondHeight ==
    /\ [][\A t \in RPCThreads :
             /\ (pc[t] = "precompute" /\ pc'[t] = "precompute_store")
                   => /\ IsShieldedMinerAddress(loc[t].minerAddress)
                      /\ cached_next_cb_height' = loc[t].nHeight + 2
             /\ (pc[t] = "precompute_store" /\ pc'[t] = "waiting")
                   => /\ cached_next_cb_mtx'.present
                      /\ cached_next_cb_mtx'.height = loc[t].nHeight + 2
                      /\ loc'[t].next_cb_mtx = cached_next_cb_mtx']_vars
    /\ [](\A t \in RPCThreads :
             (/\ Returning(t)
              /\ loc[t].fromCache
              /\ loc[t].waited
              /\ ret[t].build.invoked
              /\ nHeightOf(chainTip) = loc[t].nHeight + 1)
                => /\ ret[t].build.cb.present
                   /\ ret[t].build.cb.height = loc[t].nHeight + 2
                   /\ ret[t].build.height = loc[t].nHeight + 2)

\* a call that found the cache at its entry returns, after the tip moved up by
\* one block during its wait, a template built with the cached coinbase
C16_Witness ==
    \E t \in RPCThreads :
        /\ ReturnsTemplate(t)
        /\ loc[t].fromCache
        /\ loc[t].waited
        /\ nHeightOf(chainTip) = loc[t].nHeight + 1
        /\ ret[t].build.invoked
        /\ ret[t].build.cb.present
        /\ ret[t].reply.coinbasetxn = cached_next_cb_mtx

\* the amount in zatoshi that a reported value stands for
AmountFromValue(v) ==
    (IF v.sign THEN -1 ELSE 1) * (v.quotient * COIN + v.remainder)
SubsidyReplied == query.fn = "getblocksubsidy" /\ query.reply.kind = "object"
StreamsTotal(r) ==
    SumSeq([i \in 1..Len(r.fundingstreams) |-> AmountFromValue(r.fundingstreams[i].value)])

\* C17: whenever getblocksubsidy reports amounts for a height h >= 0, miner +
\* founders + the sum of the funding-stream values is the base subsidy at h.
C17_SharesSumToSubsidy ==
    (SubsidyReplied /\ query.nHeight >= 0) =>
       AmountFromValue(query.reply.miner) + AmountFromValue(query.reply.founders)
          + StreamsTotal(query.reply)
       = GetBlockSubsidy(query.nHeight, consensus)

\* a reply listing two funding streams that leave the miner less than the subsidy
C17_Witness ==
    /\ SubsidyReplied
    /\ Len(query.reply.fundingstreams) = 2
    /\ StreamsTotal(query.reply) > 0
    /\ AmountFromValue(query.reply.miner) < GetBlockSubsidy(query.nHeight, consensus)

\* C18: getblocksubsidy(h) fails for h < 0 and otherwise replies by one of
\* three cases: Canopy active (founders 0, one entry per active funding
\* stream, miner = base - their sum), else 0 < h <= last founders' reward
\* height (founders = base div 5, miner = base - founders), else miner = base;
\* "fundingstreams" is present exactly when Canopy is active, and founders and
\* funding streams are never both non-zero.
C18_ThreeCases ==
    query.fn = "getblocksubsidy" =>
       LET h == query.nHeight
           r == query.reply
           base == GetBlockSubsidy(h, consensus)
           active == {i \in StreamIds : StreamActive(consensus.vFundingStreams[i], h)}
       IN IF h < 0
          THEN r = ErrorReply("RPC_INVALID_PARAMETER", "Block height out of range")
          ELSE /\ r.kind = "object"
               /\ r.hasFundingStreams <=> CanopyActive(h, consensus)
               /\ ~(AmountFromValue(r.founders) # 0 /\ StreamsTotal(r) # 0)
               /\ IF CanopyActive(h, consensus)
                  THEN /\ AmountFromValue(r.founders) = 0
                       /\ Len(r.fundingstreams) = Cardinality(active)
                       /\ {r.fundingstreams[i].recipient : i \in 1..Len(r.fundingstreams)}
                             = active
                       /\ AmountFromValue(r.miner) = base - StreamsTotal(r)
                  ELSE IF 0 < h /\ h <= consensus.lastFoundersRewardHeight
                  THEN /\ AmountFromValue(r.founders) = base \div 5
                       /\ AmountFromValue(r.miner) = base - (base \div 5)
                  ELSE /\ AmountFromValue(r.miner) = base
                       /\ AmountFromValue(r.founders) = 0

\* C19: interpretHeightArg(h, T) returns h for 0 <= h <= T and T + 1 + h for
\* -(T+1) <= h < 0, fails with 'Block height out of range' for every other h,
\* and every value it returns lies in 0..T.
C19_InterpretedHeight ==
    query.fn = "interpretHeightArg" =>
       LET h == query.nHeight
           T == query.currentHeight
           r == query.reply
       IN /\ (0 <= h /\ h <= T) => r = [kind |-> "value", value |-> h]
          /\ (-(T + 1) <= h /\ h < 0) => r = [kind |-> "value", value |-> T + 1 + h]
          /\ (h > T \/ h <= -(T + 2)) =>
                r = ErrorReply("RPC_INVALID_PARAMETER", "Block height out of range")
          /\ r.kind = "value" => r.value \in 0..T

\* on a chain of height T >= 1 the argument -(T+1) was interpreted as genesis
C19_Witness ==
    /\ query.fn = "interpretHeightArg"
    /\ query.currentHeight >= 1
    /\ query.nHeight = -(query.currentHeight + 1)
    /\ query.reply = [kind |-> "value", value |-> 0]

\* the estimate as the reference defines it, with Quotient for the division
HashPSAnchor(height) ==
    IF 0 <= height /\ height < ChainHeight THEN height ELSE ChainHeight
HashPSLookup(lookup, height) ==
    Min(IF lookup <= 0 THEN consensus.nPowAveragingWindow ELSE lookup,
        HashPSAnchor(height))
HashPSWorkDiff(lookup, height) ==
    nChainWork(HashPSAnchor(height))
       - nChainWork(HashPSAnchor(height) - HashPSLookup(lookup, height))
HashPSReference(lookup, height, Quotient(_, _)) ==
    LET anchor == HashPSAnchor(height)
        visited == (anchor - HashPSLookup(lookup, height))..anchor
        minTime == CHOOSE x \in {nTime[h] : h \in visited} :
                      \A h \in visited : x <= nTime[h]
        maxTime == CHOOSE x \in {nTime[h] : h \in visited} :
                      \A h \in visited : x >= nTime[h]
    IN IF anchor = -1 \/ anchor = 0 THEN 0
       ELSE IF minTime = maxTime THEN 0
       ELSE Quotient(HashPSWorkDiff(lookup, height), maxTime - minTime)
FloorQuotient(a, b) == a \div b
\* the integer part of the floating-point quotient of the work difference,
\* itself converted to floating point, by the time difference
FloatingQuotient(a, b) == FloatQuotient(FloatQuotient(a, 1), b)

\* C20 (as stated): GetNetworkHashPS(lookup, height) equals the reference:
\* anchor at height when 0 <= height < tip height, else the tip; 0 for a
\* missing or genesis anchor; lookup <= 0 replaced by the averaging window,
\* then clamped to the anchor height; 0 when the min and max time over the
\* anchor and its lookup predecessors are equal, otherwise
\* floor(work difference / time difference).
C20_EqualsFloorReference ==
    query.fn = "GetNetworkHashPS" =>
       query.reply = HashPSReference(query.lookup, query.height, FloorQuotient)

\* C20 (amended): the same reference with the quotient taken in floating
\* point: the work difference is converted to the nearest floating-point
\* number, divided, and the integer part is returned; this is the floor of
\* the exact quotient whenever the work difference fits the significand.
C20_EqualsFloatReference ==
    query.fn = "GetNetworkHashPS" =>
       /\ query.reply = HashPSReference(query.lookup, query.height, FloatingQuotient)
       /\ (HashPSAnchor(query.height) > 0
             /\ HashPSWorkDiff(query.lookup, query.height) < Pow2(MantissaBits))
          => query.reply = HashPSReference(query.lookup, query.height, FloorQuotient)

\* an estimate over a lookup clamped to the anchor's height, for work that
\* does not fit the significand
C20_Witness ==
    /\ query.fn = "GetNetworkHashPS"
    /\ HashPSAnchor(query.height) > 0
    /\ query.lookup > HashPSAnchor(query.height)
    /\ HashPSWorkDiff(query.lookup, query.height) > Pow2(MantissaBits)
    /\ query.reply > 0

\* C21: the estimate is monotonic in chain work over a constant time window:
\* when the active chain is replaced by one whose blocks have the same times,
\* then for every lookup and height whose work difference across the window
\* is at least what it was, the estimate is at least what it was.
C21_MonotonicInWork ==
    query.fn = "ActivateBestChain" =>
       \A lookup \in QueryHeights, height \in QueryHeights :
          EstimateTable[lookup, height].work >= query.before[lookup, height].work
             => EstimateTable[lookup, height].reply >= query.before[lookup, height].reply

\* the chain was replaced by one with more work over the same block times and
\* the estimate over the whole chain grew
C21_Witness ==
    /\ query.fn = "ActivateBestChain"
    /\ EstimateTable[MaxHeight + 1, -1].work > query.before[MaxHeight + 1, -1].work
    /\ query.before[MaxHeight + 1, -1].reply > 0
    /\ EstimateTable[MaxHeight + 1, -1].reply > query.before[MaxHeight + 1, -1].reply

\* C22: in every template reply, each depends entry of a listed transaction is
\* the 1-based position of a transaction listed strictly earlier: the entry is
\* at least 1, below the transaction's own position, and names the position of
\* a transaction whose output the transaction spends.
C22_DependsPointEarlier ==
    query.fn = "TemplateTransactions" =>
        LET txs == query.reply.transactions
        IN \A k \in 1..Len(txs) : \A n \in 1..Len(txs[k].depends) :
              LET d == txs[k].depends[n]
              IN /\ d \in 1..(k - 1)
                 /\ txs[k].hash = query.vtx[k + 1].hash
                 /\ txs[d].hash \in Range(query.vtx[k + 1].vin)

\* a template whose last transaction spends two earlier ones, the one right
\* before it included
C22_Witness ==
    /\ query.fn = "TemplateTransactions"
    /\ Len(query.reply.transactions) = MaxBlockTxs
    /\ query.reply.transactions[MaxBlockTxs].depends = <<MaxBlockTxs - 1, 1>>
    /\ query.reply.transactions[2].depends = << >>

\* C23: a CVectorWriter statement repeated with the same start position and the
\* same values, on the vector the first statement produced, leaves that vector
\* exactly as it was, also when the first statement grew the vector.
C23_SecondWriteSameVector ==
    (/\ streamOp.op = "CVectorWriter"
     /\ streamOp.prev.op = "CVectorWriter"
     /\ streamOp.prev.nPos = streamOp.nPos
     /\ streamOp.prev.values = streamOp.values)
        => vch = streamOp.before

\* the repeated statement follows one that grew the vector past its old end,
\* starting beyond it
C23_Witness ==
    /\ streamOp.op = "CVectorWriter"
    /\ streamOp.prev.op = "CVectorWriter"
    /\ streamOp.prev.nPos = streamOp.nPos
    /\ streamOp.prev.values = streamOp.values
    /\ Len(streamOp.prev.before) > 0
    /\ streamOp.nPos > Len(streamOp.prev.before)
    /\ Len(SerializeMany(streamOp.values)) > 1
    /\ vch = streamOp.before

\* C24: CVectorWriter(vch, pos, data) leaves the n serialized bytes at
\* [pos, pos+n), every earlier byte outside that range as it was, zero at every
\* position between the old size and pos, and a size of max(old size, pos+n).
C24_WriteFrame ==
    streamOp.op = "CVectorWriter" =>
        LET data == SerializeMany(streamOp.values)
            n == Len(data)
            pos == streamOp.nPos
            old == streamOp.before
        IN /\ Len(vch) = Max(Len(old), pos + n)
           /\ \A i \in 0..(Len(vch) - 1) :
                 vch[i + 1] = IF i >= pos /\ i < pos + n THEN data[i - pos + 1]
                              ELSE IF i < Len(old) THEN old[i + 1]
                              ELSE 0

\* a write that overwrites the tail of a non-zero vector and runs past its end
C24_OverwriteAndGrow ==
    /\ streamOp.op = "CVectorWriter"
    /\ Len(streamOp.before) = MaxVectorSize
    /\ streamOp.before[1] = 2
    /\ streamOp.nPos = MaxVectorSize - 1
    /\ Len(vch) = MaxVectorSize + 2
    /\ vch[1] = 2

\* a write that starts past the end of a non-empty vector
C24_ZeroFill ==
    /\ streamOp.op = "CVectorWriter"
    /\ Len(streamOp.before) = 1
    /\ streamOp.before[1] = 2
    /\ streamOp.nPos = MaxStartPos
    /\ vch[2] = 0
    /\ vch[MaxStartPos] = 0

C24_Witness == C24_OverwriteAndGrow

\* C25: after any sequence of reads, FindByte and SetPos calls on a
\* CBufferedFile, GetPos() is the logical read position and eof() is false
\* while that position is before the end of the file; a read of k bytes gave
\* the file's bytes at [position, position + k) and FindByte(b) stopped at the
\* first offset at or after the position that holds b.
C25_BufferedFileFollowsFile ==
    bf.open =>
        /\ GetPos(bf) = bf.currentPos
        /\ bf.currentPos < Len(bf.file) => ~eof(bf)
        /\ streamOp.op = "read" =>
              /\ streamOp.threw = "none"
              /\ streamOp.out = SubSeq(bf.file, streamOp.pos + 1, streamOp.pos + streamOp.nSize)
              /\ GetPos(bf) = streamOp.pos + streamOp.nSize
        /\ streamOp.op = "FindByte" =>
              /\ streamOp.threw = "none"
              /\ streamOp.found = streamOp.find
              /\ streamOp.out = <<streamOp.ch>>

\* a read longer than the buffer, on a file with a rewind window, that began
\* behind the furthest position reached
C25_Witness ==
    /\ bf.open
    /\ streamOp.op = "read"
    /\ streamOp.nSize > Len(bf.vchBuf)
    /\ bf.nRewind > 0
    /\ streamOp.pos > 0
    /\ streamOp.pos + streamOp.nSize = bf.maxPos
    /\ streamOp.out = SubSeq(bf.file, streamOp.pos + 1, streamOp.pos + streamOp.nSize)

\* a FindByte that skipped bytes and refilled the buffer on its way
C25_FindByteSkips ==
    /\ bf.open
    /\ streamOp.op = "FindByte"
    /\ streamOp.find >= streamOp.pos + Len(bf.vchBuf)
    /\ streamOp.found = streamOp.find

\* p lies in the rewind window of the furthest position reached
InRewindWindow(p, maxPos, rewindSize) ==
    /\ p <= maxPos
    /\ maxPos > rewindSize
    /\ p >= maxPos - rewindSize

\* C26: SetPos(p) returns true exactly when the position after the call is p,
\* and it succeeds whenever p lies inside the rewind window
\* (maxPos - rewindSize <= p <= maxPos, with maxPos > rewindSize).
C26_SetPosResult ==
    (bf.open /\ streamOp.op = "SetPos") =>
        /\ streamOp.okay <=> (GetPos(bf) = streamOp.requestPos)
        /\ InRewindWindow(streamOp.requestPos, streamOp.maxPos, bf.nRewind) => streamOp.okay

\* a rewind to the far edge of the window, while the file was read ahead of
\* the furthest position reached
C26_Witness ==
    /\ bf.open
    /\ streamOp.op = "SetPos"
    /\ bf.nRewind > 0
    /\ InRewindWindow(streamOp.requestPos, streamOp.maxPos, bf.nRewind)
    /\ streamOp.requestPos < streamOp.pos
    /\ bf.nSrcPos > streamOp.maxPos
    /\ streamOp.okay

\* a request SetPos refuses: behind what the buffer still holds
C26_Refused ==
    /\ bf.open
    /\ streamOp.op = "SetPos"
    /\ ~streamOp.okay
    /\ streamOp.requestPos < GetPos(bf)

\* caller a holds csBestBlock and waits for cs_main, which caller b holds while
\* it waits for csBestBlock
LockCycle(a, b) ==
    /\ csBestBlock = a /\ pc[a] = "enter_cs"
    /\ cs_main = b /\ pc[b] = "lock_best"

\* C27: with two RPC threads long-polling and the chain-activation thread, no
\* state is reached in which one caller holds csBestBlock while blocked on
\* cs_main and another holds cs_main while blocked on csBestBlock.
C27_NoLockCycle ==
    \A a \in RPCThreads, b \in RPCThreads : ~LockCycle(a, b)

\* the caller is in its long-poll wait on hash h, inside the clock's range,
\* while the tip is another block
WatchedTipMoved(t, h) ==
    /\ InLongPollWait(t)
    /\ loc[t].hashWatchedChain = h
    /\ loc[t].checktxtime <= MaxTime
    /\ GetBlockHash(chainTip) # h

\* the block builder gave no block (mining.cpp:656-658)
BuilderFailed(t) ==
    /\ Returning(t)
    /\ ret[t].reply = ErrorReply("RPC_OUT_OF_MEMORY", "Out of memory")

CacheAccessOverlap(a, b) ==
    /\ a # b
    /\ pc[a] = "precompute_store"
    /\ pc[b] = "entry"

\* C29: accesses of concurrent callers to cached_next_cb_mtx and
\* cached_next_cb_height exclude one another (no caller reads, copies or clears
\* the cache at entry while another writes it in its precompute step), and a
\* cache that is present was built for the height in cached_next_cb_height.
C29_CacheAccessExclusive ==
    /\ \A a \in RPCThreads, b \in RPCThreads : ~CacheAccessOverlap(a, b)
    /\ cached_next_cb_mtx.present => cached_next_cb_mtx.height = cached_next_cb_height

\* the part of C29 that holds at the granularity of whole statements
C29_PresentCacheMatchesHeight ==
    cached_next_cb_mtx.present => cached_next_cb_mtx.height = cached_next_cb_height

\* the step of caller t that follows its wait, taken with the tip unchanged
RecheckStep(t) ==
    /\ pc[t] = "recheck"
    /\ pc'[t] # "recheck"
    /\ GetBlockHash(chainTip) = loc[t].hashWatchedChain

\* the wait ends at the step: the call leaves the loop without its coinbase
WaitEnds(t) ==
    /\ pc'[t] = "after_loop"
    /\ ~loc'[t].next_cb_mtx.present

\* the call keeps waiting: back to the head of the loop, deadline 10 s later
KeepsWaiting(t) ==
    /\ pc'[t] = "loop_cond"
    /\ loc'[t].checktxtime = loc[t].checktxtime + LongPollSeconds
    /\ loc'[t].next_cb_mtx = loc[t].next_cb_mtx

\* a call without a coinbase of its own hands none to the block builder
BuildsWithoutCoinbase(t) ==
    /\ (pc[t] = "after_loop" /\ ~loc[t].next_cb_mtx.present)
          => ~loc'[t].next_cb_mtx.present
    /\ (pc[t] = "update" /\ pc'[t] = "return" /\ ~loc[t].next_cb_mtx.present
          /\ ret'[t].build.invoked)
          => ~ret'[t].build.cb.present

\* C30 as stated: after a timeout with the mempool counter past the client's
\* count the cached coinbase is invalidated, the wait ends and the template is
\* built without a precomputed coinbase; after a timeout with the counter
\* unchanged, or a wake-up without timeout, with the tip unchanged, the
\* deadline moves by 10 s and the call keeps waiting.
C30_TimeoutInvalidatesCache ==
    [][\A t \in RPCThreads :
          /\ (RecheckStep(t) /\ loc[t].timedout
                /\ nTransactionsUpdated > loc[t].nTransactionsUpdatedLastLP)
                => (WaitEnds(t) /\ ~cached_next_cb_mtx'.present)
          /\ (RecheckStep(t)
                /\ (~loc[t].timedout
                      \/ nTransactionsUpdated = loc[t].nTransactionsUpdatedLastLP))
                => KeepsWaiting(t)
          /\ BuildsWithoutCoinbase(t)]_vars

\* C30, amended: after a timeout with the mempool counter different from the
\* client's count, in either direction, the call drops its own copy of the
\* coinbase and leaves the stored cache as it is, the wait ends and the
\* template is built without a precomputed coinbase; after a timeout with the
\* counter equal to the client's count, or a wake-up without timeout, with the
\* tip unchanged, the deadline moves by 10 s and the call goes back to the head
\* of the loop, where it waits again while the RPC server is running.
C30_TimeoutDropsOwnCopy ==
    [][\A t \in RPCThreads :
          /\ (RecheckStep(t) /\ loc[t].timedout
                /\ nTransactionsUpdated # loc[t].nTransactionsUpdatedLastLP)
                => (WaitEnds(t) /\ cached_next_cb_mtx' = cached_next_cb_mtx)
          /\ (RecheckStep(t)
                /\ (~loc[t].timedout
                      \/ nTransactionsUpdated = loc[t].nTransactionsUpdatedLastLP))
                => KeepsWaiting(t)
          /\ (pc[t] = "loop_cond" /\ pc'[t] # "loop_cond" /\ fRPCRunning
                /\ GetBlockHash(chainTip) = loc[t].hashWatchedChain)
                => pc'[t] = "precompute"
          /\ BuildsWithoutCoinbase(t)]_vars

\* a call has left the loop on a timeout with the counter past the client's
\* count: the tip is the watched one, its own coinbase is gone, the stored
\* cache is still there
C30_Witness ==
    /\ pc["t1"] = "after_loop"
    /\ fRPCRunning
    /\ GetBlockHash(chainTip) = loc["t1"].hashWatchedChain
    /\ nTransactionsUpdated > loc["t1"].nTransactionsUpdatedLastLP
    /\ ~loc["t1"].next_cb_mtx.present
    /\ cached_next_cb_mtx.present

\* a call waits again with its deadline moved by 10 s
C30_DeadlineExtended ==
    /\ pc["t1"] = "waiting"
    /\ loc["t1"].checktxtime = now + LongPollSeconds
    /\ now > 0
    /\ loc["t1"].waited
    /\ GetBlockHash(chainTip) = loc["t1"].hashWatchedChain

\* the template in use was built from the precomputed coinbase over a mempool
\* that held transactions, the tip is still the one it was built on and the
\* mempool still holds transactions
EmptyTemplateOverPool ==
    /\ pblocktemplate.live
    /\ pblocktemplate.built.precomputedOverPool
    /\ pindexPrev = chainTip
    /\ mempool # {}

\* C31: when a template was built from the precomputed coinbase while the
\* mempool was non-empty, mempool_updated_last is 0 and the next
\* getblocktemplate call on the same tip, with or without a longpollid and
\* however soon it arrives, rebuilds the template with the waiting mempool
\* transactions in it.
C31_NextCallRebuildsWithPool ==
    /\ [](EmptyTemplateOverPool => nTransactionsUpdatedLast = 0)
    /\ [][\A t \in RPCThreads :
             (UpdateStep(t) /\ EmptyTemplateOverPool) =>
                /\ ret'[t].build.rebuilt
                /\ ret'[t].reply.kind = "template" =>
                      ret'[t].reply.transactions = mempool]_vars

\* a call without a longpollid is answered with the empty template while
\* transactions wait
C31_StillExcluded ==
    /\ ReturnsTemplate("t1")
    /\ loc["t1"].lpval.kind = "null"
    /\ EmptyTemplateOverPool
    /\ ~ret["t1"].build.rebuilt
    /\ ret["t1"].reply.transactions = {}

\* C32: a rebuild that fails after it has started leaves pindexPrev cleared, so
\* the next call rebuilds whatever its longpollid, the tip and the mempool
\* counter; a call that reaches the reply stage has a live template built on
\* pindexPrev, never an absent or released one.
C32_FailedRebuildIsRetried ==
    /\ [](pindexPrev # NullIndex =>
             /\ pblocktemplate.live
             /\ pblocktemplate.hashPrevBlock = GetBlockHash(pindexPrev))
    /\ [][\A t \in RPCThreads :
             UpdateStep(t) =>
                /\ (ret'[t].build.rebuilt /\ ret'[t].reply.kind = "error")
                      => (pindexPrev' = NullIndex /\ ~pblocktemplate'.live)
                /\ pindexPrev = NullIndex => ret'[t].build.rebuilt
                /\ ret'[t].reply.kind = "template" =>
                      /\ pindexPrev' # NullIndex
                      /\ pblocktemplate'.live
                      /\ pblocktemplate'.hashPrevBlock = GetBlockHash(pindexPrev')
                      /\ ret'[t].reply.previousblockhash = GetBlockHash(pindexPrev')]_vars

\* a rebuild failed on the very tip the last successful build was made for: the
\* template of that build is released and pindexPrev is cleared
C32_Witness ==
    /\ Returning("t1")
    /\ ret["t1"].reply.kind = "error"
    /\ ret["t1"].build.rebuilt
    /\ lastBuiltTip = chainTip
    /\ pindexPrev = NullIndex
    /\ ~pblocktemplate.live

EntryStep(t) == pc[t] = "entry" /\ pc'[t] # "entry"
PrecomputeTest(t) == pc[t] = "precompute" /\ pc'[t] # "precompute"
StoreStep(t) == pc[t] = "precompute_store" /\ pc'[t] = "waiting"

\* C33: the entry stage of a call discards a stored coinbase whose height is
\* not the tip height + 2 and keeps any other; inside the wait a coinbase is
\* precomputed exactly when the miner address is shielded and no coinbase is
\* stored, and it is stored for the call's entry height + 2; the builder never
\* receives a precomputed coinbase with a transparent miner address.
C33_CachedCoinbaseLifecycle ==
    /\ [][\A t \in RPCThreads :
             /\ EntryStep(t) =>
                  /\ cached_next_cb_height # nHeightOf(chainTip) + 2
                        => ~cached_next_cb_mtx'.present
                  /\ cached_next_cb_height = nHeightOf(chainTip) + 2
                        => cached_next_cb_mtx' = cached_next_cb_mtx
                  /\ loc'[t].next_cb_mtx = cached_next_cb_mtx'
             /\ PrecomputeTest(t) =>
                  (pc'[t] = "precompute_store"
                     <=> (IsShieldedMinerAddress(loc[t].minerAddress)
                            /\ ~cached_next_cb_mtx.present))
             /\ StoreStep(t) =>
                  /\ cached_next_cb_mtx'.present
                  /\ cached_next_cb_mtx'.height = loc[t].nHeight + 2
                  /\ cached_next_cb_height' = loc[t].nHeight + 2]_vars
    /\ [](\A t \in RPCThreads :
             (Returning(t) /\ ret[t].build.invoked /\ loc[t].minerAddress = "transparent")
                => ~ret[t].build.cb.present)

\* a call past its entry stage, with a shielded miner address: the coinbase an
\* earlier call stored for another height is gone, so its wait precomputes anew
C33_Witness ==
    /\ pc["t1"] = "lock_best"
    /\ IsShieldedMinerAddress(loc["t1"].minerAddress)
    /\ cached_next_cb_height > 0
    /\ cached_next_cb_height # loc["t1"].nHeight + 2
    /\ ~cached_next_cb_mtx.present
    /\ ~loc["t1"].next_cb_mtx.present

\* C34: the state catcher of a submitblock call is registered from just before
\* ProcessNewBlock until just after it returns and on no other step, so a
\* finished call has none registered; while registered it takes its verdict
\* only from a BlockChecked signal for the submitted block's hash, and a signal
\* for any other hash leaves found and the captured state as they were.
C34_CatcherScope ==
    /\ [](\A t \in RPCThreads :
             sb[t].registered <=> pc[t] \in {"sb_registered", "sb_processed"})
    /\ [](\A t \in RPCThreads :
             (pc[t] \in {"idle", "sb_return"}) => ~sb[t].registered)
    /\ [][\A t \in RPCThreads :
             /\ (sb'[t].registered /\ ~sb[t].registered)
                   => (pc'[t] = "sb_registered" /\ ~sb'[t].found /\ ~sb'[t].called)
             /\ (pc[t] = "sb_processed" /\ pc'[t] # "sb_processed")
                   => (~sb'[t].registered /\ pc'[t] = "sb_return")
             /\ \A b \in Blocks :
                   (sb[t].registered /\ b # sb[t].block /\ pc'[t] = pc[t] /\ PeerBlock(b))
                      => (sb'[t].found = sb[t].found /\ sb'[t].scState = sb[t].scState)
             /\ (sb'[t].found /\ ~sb[t].found)
                   => /\ sb[t].registered
                      /\ \/ pc[t] = "sb_registered" /\ pc'[t] = "sb_processed"
                         \/ PeerBlock(sb[t].block)]_vars

\* before the call's own ProcessNewBlock runs, its registered catcher has
\* recorded the verdict of the same block delivered by a peer, while the tip is
\* a block another notification was about
C34_Witness ==
    /\ pc["t1"] = "sb_registered"
    /\ sb["t1"].registered
    /\ sb["t1"].found
    /\ sb["t1"].scState.mode = "invalid"

\* C35: submitblock answers null only when, within the call, ProcessNewBlock
\* accepted the block and the catcher recorded a valid state for it; a block
\* ProcessNewBlock did not accept is answered neither null nor "duplicate".
C35_NullOnlyWhenAccepted ==
    \A t \in RPCThreads :
       (SubmitReturns(t) /\ sb[t].called) =>
          /\ ret[t].reply = Verdict("null")
                => (sb[t].fAccepted /\ sb[t].found /\ sb[t].scState.mode = "valid")
          /\ ~sb[t].fAccepted
                => ret[t].reply \notin {Verdict("null"), Verdict("duplicate")}

\* a block whose header was in the index is rejected by ProcessNewBlock and the
\* call answers "duplicate"
C35_RejectedIsDuplicate ==
    /\ SubmitReturns("t1")
    /\ sb["t1"].called
    /\ sb["t1"].fBlockPresent
    /\ ~sb["t1"].fAccepted
    /\ sb["t1"].state.mode = "invalid"
    /\ ret["t1"].reply = Verdict("duplicate")

RejectedEarly(t) ==
    /\ pc[t] = "idle"
    /\ pc'[t] \in {"return", "sb_return"}
    /\ ret'[t].reply.kind = "error"

\* C36: a request that fails a check before the long-poll stage fails with the
\* error of that check - InvalidParameter for a mode that is not a string or
\* is neither "template" nor "proposal", Type for a proposal without string
\* data, DeserializationError for undecodable block hex (proposal and
\* submitblock), ClientNotConnected without peers outside regtest,
\* ClientInInitialDownload during the initial download - and leaves the chain,
\* the mempool and the coordinator's state unchanged.
C36_EarlyFailureChangesNothing ==
    /\ [](\A req \in Requests :
             LET code == IF ValidateRequest(req).kind = "error"
                         THEN ValidateRequest(req).code ELSE "none"
             IN /\ req.mode \in {"nonstr", "other"} => code = "RPC_INVALID_PARAMETER"
                /\ (req.mode = "proposal" /\ req.data # "string") => code = "RPC_TYPE_ERROR"
                /\ (req.mode \in TemplateModes /\ ~req.regtest /\ ~req.peers)
                      => code = "RPC_CLIENT_NOT_CONNECTED"
                /\ (req.mode \in TemplateModes /\ (req.regtest \/ req.peers) /\ req.ibd)
                      => code = "RPC_CLIENT_IN_INITIAL_DOWNLOAD")
    /\ [][\A t \in RPCThreads :
             RejectedEarly(t) =>
                /\ UNCHANGED <<chainVars, mempoolVars, gbtStatics>>
                /\ ret'[t].build = NoBuild
                /\ IF pc'[t] = "sb_return"
                   THEN /\ sb'[t].block = Undecodable
                        /\ ret'[t].reply.code = "RPC_DESERIALIZATION_ERROR"
                   ELSE ret'[t].reply = ValidateRequest(ret'[t].request)]_vars

\* a request with an unknown mode, sent to a node without peers, is turned down
\* for its mode while a template and a cached coinbase are held
C36_Witness ==
    /\ Returning("t1")
    /\ ret["t1"].reply = ErrorReply("RPC_INVALID_PARAMETER", "Invalid mode")
    /\ ret["t1"].request.mode = "other"
    /\ ~ret["t1"].request.peers
    /\ pblocktemplate.live
    /\ pindexPrev = chainTip
    /\ cached_next_cb_mtx.present

BuildAttempted(t) ==
    \/ Returning(t) /\ ret[t].build.rebuilt
    \/ pc[t] = "gen_return" /\ ret[t].reply.kind = "error"
                            /\ ret[t].reply.code # "RPC_METHOD_NOT_FOUND"

\* C37: when the miner address is the null reserve script of an exhausted
\* keypool, a call that has to build a template - getblocktemplate or generate -
\* fails with the keypool error and not with the no-miner-address error.
C37_KeypoolErrorIsDistinct ==
    \A t \in RPCThreads :
       (BuildAttempted(t) /\ loc[t].minerAddress = "exhausted") =>
          /\ ret[t].reply.kind = "error"
          /\ ret[t].reply.code = "RPC_WALLET_KEYPOOL_RAN_OUT"

\* generate reports the exhausted keypool by its own error
C37_GenerateReportsKeypool ==
    \A t \in RPCThreads :
       (pc[t] = "gen_return" /\ loc[t].minerAddress = "exhausted"
          /\ ret[t].reply.code # "RPC_METHOD_NOT_FOUND")
       => ret[t].reply.code = "RPC_WALLET_KEYPOOL_RAN_OUT"

\* getblocktemplate reports the exhausted keypool as a missing miner address
C37_ReportedAsNoAddress ==
    /\ Returning("t1")
    /\ loc["t1"].minerAddress = "exhausted"
    /\ ret["t1"].build.rebuilt
    /\ ret["t1"].reply = ErrorReply("RPC_INTERNAL_ERROR", "No miner address available")

\* C38: in a getblocksubsidy reply with Canopy active every fundingstreams
\* entry carries the address of the funding stream that supplied its
\* recipient and value, whichever streams are defined and active at the
\* height, and no address is resolved from an undefined or inactive stream.
C38_AddressOfSameStream ==
    (/\ query.fn = "getblocksubsidy"
     /\ query.nHeight >= 0
     /\ CanopyActive(query.nHeight, consensus))
    => /\ query.reply.kind = "object"
       /\ \A i \in 1..Len(query.reply.fundingstreams) :
             LET e == query.reply.fundingstreams[i]
             IN /\ e.address = e.recipient
                /\ StreamActive(consensus.vFundingStreams[e.address], query.nHeight)

\* the first stream is defined but not yet active at the height, the second is
\* active: the address of the first is asked for and the call aborts
C38_InactiveStreamRead ==
    /\ query.fn = "getblocksubsidy"
    /\ CanopyActive(query.nHeight, consensus)
    /\ consensus.vFundingStreams[0].defined
    /\ ~StreamActive(consensus.vFundingStreams[0], query.nHeight)
    /\ StreamActive(consensus.vFundingStreams[1], query.nHeight)
    /\ query.reply.kind = "abort"

\* C39: for every chain, lookup and height - lookup negative, zero or larger
\* than the chain, height negative or at or beyond the tip - GetNetworkHashPS
\* walks back at most as many blocks as the anchor is high and so never reads
\* the predecessor of the genesis block, never divides by zero and returns a
\* value that is not negative.
C39_HashPSIsSafe ==
    query.fn = "GetNetworkHashPS" =>
       LET anchor == HashPSAnchor(query.height)
           window == IF query.lookup <= 0 THEN consensus.nPowAveragingWindow
                     ELSE query.lookup
           steps == ClampLookup(window, anchor)
           w == WalkBack(steps, anchor, nTime[anchor], nTime[anchor])
       IN /\ anchor > 0 =>
                /\ steps <= anchor
                /\ w.pb0 = anchor - steps
                /\ w.pb0 >= 0
                /\ w.maxTime >= w.minTime
                /\ nChainWork(anchor) >= nChainWork(w.pb0)
          /\ query.reply \in Nat
          /\ (anchor > 0 /\ w.maxTime = w.minTime) => query.reply = 0

\* a lookup larger than the chain, at a height beyond the tip: the walk ends
\* at the genesis block and the estimate is positive
C39_Witness ==
    /\ query.fn = "GetNetworkHashPS"
    /\ ChainHeight >= 1
    /\ query.height > ChainHeight
    /\ query.lookup > ChainHeight
    /\ query.reply > 0

====
